---- MODULE Spec2Model ----
(***************************************************************************)
(* Model of the multi-vendor AI capability layer of Administrator:         *)
(*   - AIProviderFactory (src/src/ai/AIProviderFactory.ts)                 *)
(*   - AIAnalyzer        (src/unnamed/part_002)                            *)
(*                                                                         *)
(* JavaScript values are tagged records, so that values of different       *)
(* dynamic types can be compared: Undefined, Null, [str |-> chars],        *)
(* [num |-> n], [bool |-> b], [arr |-> tuple], [obj |-> function].         *)
(* A JavaScript string is a tuple of one-character strings, so that        *)
(* toLowerCase, parseInt and the regular expressions are computed on its   *)
(* characters.  Error messages are rendered to TLA+ strings.               *)
(***************************************************************************)
EXTENDS Integers, Sequences, FiniteSets, TLC

VARIABLES
    env,           \* process.env: variable name -> Undefined or [str |-> chars]
    factoryCall,   \* the last call of an AIProviderFactory static method, or of
                   \* a method of an adapter it built
    aiProvider,    \* AIAnalyzer.aiProvider: NoProvider or the adapter held
    pending,       \* calls in flight, each awaiting a promise it does not own
    lastOp         \* the analyzer operation the caller awaited last, once settled

vars == <<env, factoryCall, aiProvider, pending, lastOp>>

-----------------------------------------------------------------------------
(* JavaScript values *)

Undefined == [undefined |-> TRUE]
Null == [null |-> TRUE]
NaN == [nan |-> TRUE]
Str(chars) == [str |-> chars]
Num(n) == [num |-> n]
Bool(b) == [bool |-> b]
Arr(t) == [arr |-> t]
Obj(f) == [obj |-> f]

IsStr(v) == DOMAIN v = {"str"}
IsNum(v) == "num" \in DOMAIN v
IsArr(v) == DOMAIN v = {"arr"}
IsObj(v) == DOMAIN v = {"obj"}

\* ToBoolean: undefined, null, NaN, 0, "" and false are falsy.
Truthy(v) ==
    CASE v = Undefined -> FALSE
      [] v = Null -> FALSE
      [] v = NaN -> FALSE
      [] IsStr(v) -> v.str # <<>>
      [] IsNum(v) -> v.num # 0
      [] DOMAIN v = {"bool"} -> v.bool
      [] OTHER -> TRUE

\* a || b
OrElse(a, b) == IF Truthy(a) THEN a ELSE b

UpperAlphabet ==
    <<"A","B","C","D","E","F","G","H","I","J","K","L","M",
      "N","O","P","Q","R","S","T","U","V","W","X","Y","Z">>
LowerAlphabet ==
    <<"a","b","c","d","e","f","g","h","i","j","k","l","m",
      "n","o","p","q","r","s","t","u","v","w","x","y","z">>

LowerChar(c) ==
    IF \E i \in 1..Len(UpperAlphabet) : UpperAlphabet[i] = c
    THEN LowerAlphabet[CHOOSE i \in 1..Len(UpperAlphabet) : UpperAlphabet[i] = c]
    ELSE c

\* String.prototype.toLowerCase
toLowerCase(chars) == [i \in 1..Len(chars) |-> LowerChar(chars[i])]

\* The characters of a string joined into one TLA+ string (template literals).
RECURSIVE Text(_)
Text(chars) == IF chars = <<>> THEN "" ELSE Head(chars) \o Text(Tail(chars))

DigitChars == <<"0","1","2","3","4","5","6","7","8","9">>
IsDigit(c) == \E i \in 1..10 : DigitChars[i] = c
DigitValue(c) == (CHOOSE i \in 1..10 : DigitChars[i] = c) - 1
IsSpace(c) == c \in {" ", "\t", "\n"}

\* Index of the first character at or after i that fails P, Len+1 if none.
RECURSIVE SkipSpaces(_, _)
SkipSpaces(chars, i) ==
    IF i <= Len(chars) /\ IsSpace(chars[i]) THEN SkipSpaces(chars, i + 1) ELSE i
RECURSIVE SkipDigits(_, _)
SkipDigits(chars, i) ==
    IF i <= Len(chars) /\ IsDigit(chars[i]) THEN SkipDigits(chars, i + 1) ELSE i

\* Value of the decimal digits chars[i..j-1].
RECURSIVE DigitsValue(_, _, _)
DigitsValue(chars, i, j) ==
    IF j <= i THEN 0 ELSE DigitsValue(chars, i, j - 1) * 10 + DigitValue(chars[j - 1])

RECURSIVE Pow10(_)
Pow10(k) == IF k = 0 THEN 1 ELSE 10 * Pow10(k - 1)

\* A decimal number m * 10^(-k), normalised so that equal numbers are equal
\* values: [num |-> n] for an integer, [num |-> m, exp |-> -k] otherwise.
RECURSIVE Dec(_, _)
Dec(m, k) ==
    IF k = 0 THEN Num(m)
    ELSE IF m % 10 = 0 THEN Dec(m \div 10, k - 1)
    ELSE [num |-> m, exp |-> 0 - k]

\* parseInt(string): leading white space, an optional sign, then the longest
\* run of decimal digits; NaN when there is none.
parseInt(chars) ==
    LET s == SkipSpaces(chars, 1)
        neg == s <= Len(chars) /\ chars[s] = "-"
        d == IF s <= Len(chars) /\ chars[s] \in {"-", "+"} THEN s + 1 ELSE s
        e == SkipDigits(chars, d)
    IN  IF e = d THEN NaN
        ELSE Num((IF neg THEN -1 ELSE 1) * DigitsValue(chars, d, e))

\* parseFloat(string): leading white space, an optional sign, digits, and an
\* optional fraction; NaN when no digit starts the number.  (Exponents and
\* Infinity are outside the environment values modelled.)
parseFloat(chars) ==
    LET s == SkipSpaces(chars, 1)
        neg == s <= Len(chars) /\ chars[s] = "-"
        d == IF s <= Len(chars) /\ chars[s] \in {"-", "+"} THEN s + 1 ELSE s
        e == SkipDigits(chars, d)
        hasDot == e <= Len(chars) /\ chars[e] = "."
        f == IF hasDot THEN SkipDigits(chars, e + 1) ELSE e
        fracLen == IF hasDot THEN f - (e + 1) ELSE 0
        sign == IF neg THEN -1 ELSE 1
    IN  IF e = d /\ fracLen = 0 THEN NaN
        ELSE Dec(sign * (DigitsValue(chars, d, e) * Pow10(fracLen)
                         + (IF hasDot THEN DigitsValue(chars, e + 1, f) ELSE 0)),
                 fracLen)

-----------------------------------------------------------------------------
(* Outcomes of a call *)

\* built lists the adapter constructors that ran during the call.
Return(v) == [outcome |-> "return", value |-> v]
Throw(msg) == [outcome |-> "throw", message |-> msg]
Made(p) == [outcome |-> "return", value |-> p, built |-> <<p>>]
Failed(msg) == [outcome |-> "throw", message |-> msg, built |-> <<>>]
Returned(r) == r.outcome = "return"
Threw(r) == r.outcome = "throw"

-----------------------------------------------------------------------------
(* AIProviderFactory *)

\* The adapter object a provider constructor builds from (apiKey, model).
NewProvider(class, apiKey, model) ==
    [class |-> class, apiKey |-> apiKey, model |-> model]

\* getProviderName() of each adapter class.
getProviderName(provider) ==
    CASE provider.class = "OpenAIProvider" -> "OpenAI"
      [] provider.class = "AnthropicProvider" -> "Anthropic"
      [] provider.class = "GeminiProvider" -> "Google Gemini"

\* What the transport gives an adapter for one request: a response with a
\* success status and the generated text in its payload, a response with
\* another status, its status text and the vendor's error message ("" if
\* the payload has none), or a network exception.
HttpSuccess(text) == [kind |-> "success", text |-> text]
HttpFailure(statusText, vendorMessage) ==
    [kind |-> "failure", statusText |-> statusText, vendorMessage |-> vendorMessage]
NetworkError(message) == [kind |-> "network", message |-> message]

\* analyze of an adapter whose error message names no provider.
analyze_anonymousError(provider, http) ==
    CASE http.kind = "network" -> Throw(http.message)
      [] http.kind = "failure" ->
            Throw(IF http.vendorMessage # "" THEN http.vendorMessage
                  ELSE http.statusText)
      [] http.kind = "success" ->
            Return([result |-> http.text, provider |-> getProviderName(provider)])

\* analyze(request) of each adapter class, by the outcome of its request.
analyze(provider, http) ==
    CASE http.kind = "network" -> Throw(http.message)
      [] http.kind = "failure" ->
            Throw(getProviderName(provider) \o " analysis failed: "
                  \o (IF http.vendorMessage # "" THEN http.vendorMessage
                      ELSE http.statusText))
      [] http.kind = "success" ->
            Return([result |-> http.text, provider |-> getProviderName(provider)])

\* validateCredentials that lets a network exception escape.
validateCredentials_passthrough(provider, http) ==
    IF http.kind = "network" THEN Throw(http.message)
    ELSE Return(Bool(http.kind = "success"))

\* validateCredentials() of each adapter class, by the outcome of its
\* lightweight request.
validateCredentials(provider, http) == Return(Bool(http.kind = "success"))

s_openai == <<"o","p","e","n","a","i">>
s_anthropic == <<"a","n","t","h","r","o","p","i","c">>
s_gemini == <<"g","e","m","i","n","i">>

\* create with the provider dispatched before the API key is looked at.
create_dispatchFirst(config) ==
    LET p == toLowerCase(config.provider.str)
    IN  IF p \notin {s_openai, s_anthropic, s_gemini}
        THEN Failed("Unknown AI provider: " \o Text(config.provider.str)
                    \o ". Supported providers: openai, anthropic, gemini")
        ELSE IF ~Truthy(config.apiKey)
        THEN Failed("API key is required for " \o Text(config.provider.str) \o " provider")
        ELSE Made(NewProvider(CASE p = s_openai -> "OpenAIProvider"
                                [] p = s_anthropic -> "AnthropicProvider"
                                [] p = s_gemini -> "GeminiProvider",
                              config.apiKey, config.model))

\* create reporting the lower-cased provider name in its error.
create_lowercasedMessage(config) ==
    LET p == toLowerCase(config.provider.str)
    IN  IF ~Truthy(config.apiKey)
        THEN Failed("API key is required for " \o Text(config.provider.str) \o " provider")
        ELSE IF p \notin {s_openai, s_anthropic, s_gemini}
        THEN Failed("Unknown AI provider: " \o Text(p)
                    \o ". Supported providers: openai, anthropic, gemini")
        ELSE Made(NewProvider(CASE p = s_openai -> "OpenAIProvider"
                                [] p = s_anthropic -> "AnthropicProvider"
                                [] p = s_gemini -> "GeminiProvider",
                              config.apiKey, config.model))

\* create dispatching on the provider name as given, without toLowerCase.
create_caseSensitive(config) ==
    LET p == config.provider.str
    IN  IF ~Truthy(config.apiKey)
        THEN Failed("API key is required for " \o Text(config.provider.str) \o " provider")
        ELSE IF p \notin {s_openai, s_anthropic, s_gemini}
        THEN Failed("Unknown AI provider: " \o Text(config.provider.str)
                    \o ". Supported providers: openai, anthropic, gemini")
        ELSE Made(NewProvider(CASE p = s_openai -> "OpenAIProvider"
                                [] p = s_anthropic -> "AnthropicProvider"
                                [] p = s_gemini -> "GeminiProvider",
                              config.apiKey, config.model))

\* create handing the configuration's maxTokens and temperature on to the
\* adapter it constructs.
create_passesTuning(config) ==
    IF ~Truthy(config.apiKey)
    THEN Failed("API key is required for " \o Text(config.provider.str) \o " provider")
    ELSE IF toLowerCase(config.provider.str) \in {s_openai, s_anthropic, s_gemini}
         THEN Made([class |-> CASE toLowerCase(config.provider.str) = s_openai ->
                                      "OpenAIProvider"
                                [] toLowerCase(config.provider.str) = s_anthropic ->
                                      "AnthropicProvider"
                                [] OTHER -> "GeminiProvider",
                    apiKey |-> config.apiKey, model |-> config.model,
                    maxTokens |-> config.maxTokens, temperature |-> config.temperature])
         ELSE Failed("Unknown AI provider: " \o Text(config.provider.str)
                     \o ". Supported providers: openai, anthropic, gemini")

\* AIProviderFactory.create(config)
create(config) ==
    IF ~Truthy(config.apiKey)
    THEN Failed("API key is required for " \o Text(config.provider.str) \o " provider")
    ELSE LET p == toLowerCase(config.provider.str)
         IN  CASE p = s_openai ->
                    Made(NewProvider("OpenAIProvider", config.apiKey, config.model))
               [] p = s_anthropic ->
                    Made(NewProvider("AnthropicProvider", config.apiKey, config.model))
               [] p = s_gemini ->
                    Made(NewProvider("GeminiProvider", config.apiKey, config.model))
               [] OTHER ->
                    Failed("Unknown AI provider: " \o Text(config.provider.str)
                          \o ". Supported providers: openai, anthropic, gemini")

\* The configuration createFromEnv hands to create, given the resolved
\* provider and key.
EnvConfig(e, provider, apiKey) ==
    [provider |-> Str(provider),
     apiKey |-> apiKey,
     model |-> e["AI_MODEL"],
     maxTokens |-> IF Truthy(e["AI_MAX_TOKENS"])
                   THEN parseInt(e["AI_MAX_TOKENS"].str) ELSE Undefined,
     temperature |-> IF Truthy(e["AI_TEMPERATURE"])
                     THEN parseFloat(e["AI_TEMPERATURE"].str) ELSE Undefined]

\* The provider resolved with another default than openai.
EnvProvider_defaultAnthropic(e) ==
    toLowerCase(OrElse(e["AI_PROVIDER"], Str(s_anthropic)).str)

\* The provider name createFromEnv resolves.
EnvProvider(e) == toLowerCase(OrElse(e["AI_PROVIDER"], Str(s_openai)).str)

\* Every provider reading the same key variable.
EnvKeyVar_alwaysOpenAI(provider) == "OPENAI_API_KEY"

\* The API-key variable createFromEnv reads for a resolved provider.
EnvKeyVar(provider) ==
    CASE provider = s_openai -> "OPENAI_API_KEY"
      [] provider = s_anthropic -> "ANTHROPIC_API_KEY"
      [] provider = s_gemini -> "GEMINI_API_KEY"

\* AIProviderFactory.createFromEnv(), reading the environment e.  The result
\* carries the configuration passed on to create, when create is reached.
createFromEnv(e) ==
    LET provider == EnvProvider(e)
    IN  IF provider \notin {s_openai, s_anthropic, s_gemini}
        THEN Failed("Unknown AI provider: " \o Text(provider))
        ELSE LET apiKey == e[EnvKeyVar(provider)]
             IN  IF ~Truthy(apiKey)
                 THEN Failed("API key not found for " \o Text(provider) \o " provider")
                 ELSE create(EnvConfig(e, provider, apiKey))

\* getSupportedProviders listing the providers in alphabetical order.
getSupportedProviders_sorted ==
    Arr(<<Str(s_anthropic), Str(s_gemini), Str(s_openai)>>)

\* AIProviderFactory.getSupportedProviders()
getSupportedProviders == Arr(<<Str(s_openai), Str(s_anthropic), Str(s_gemini)>>)

\* validateProvider without its catch: the error of create or of
\* validateCredentials() escapes.
validateProvider_noCatch(config, probe) ==
    LET made == create(config)
    IN  IF Threw(made) THEN Throw(made.message)
        ELSE IF probe = "throw" THEN Throw("validateCredentials failed")
        ELSE Return(Bool(probe = "true"))

\* AIProviderFactory.validateProvider(config); probe is what the adapter's
\* validateCredentials() does when it is reached: "true", "false" or "throw".
validateProvider(config, probe) ==
    LET made == create(config)
    IN  IF Threw(made) THEN Return(Bool(FALSE))
        ELSE IF probe = "throw" THEN Return(Bool(FALSE))
        ELSE Return(Bool(probe = "true"))

-----------------------------------------------------------------------------
(* Inputs of the factory *)

s_OpenAI == <<"O","p","e","n","A","I">>
s_ANTHROPIC == <<"A","N","T","H","R","O","P","I","C">>
s_Gemini == <<"G","e","m","i","n","i">>
s_unknown == <<"u","n","k","n","o","w","n">>
s_Azure == <<"A","z","u","r","e">>
s_testkey == <<"t","e","s","t","-","k","e","y">>
s_otherkey == <<"s","k","-","2">>
s_gpt4 == <<"g","p","t","-","4">>

ProviderValues ==
    {s_openai, s_OpenAI, s_anthropic, s_ANTHROPIC, s_gemini, s_Gemini,
     s_unknown, s_Azure, <<>>}
ApiKeyValues == {Str(<<>>), Str(s_testkey), Str(s_otherkey)}
ModelValues == {Undefined, Str(s_gpt4)}
TuningValues ==
    {[maxTokens |-> Undefined, temperature |-> Undefined],
     [maxTokens |-> Num(500), temperature |-> Dec(5, 1)]}

ProviderConfigs ==
    {[provider |-> Str(p), apiKey |-> k, model |-> m,
      maxTokens |-> t.maxTokens, temperature |-> t.temperature] :
        p \in ProviderValues, k \in ApiKeyValues, m \in ModelValues, t \in TuningValues}

Probes == {"true", "false", "throw"}

EnvVars ==
    {"AI_PROVIDER", "OPENAI_API_KEY", "ANTHROPIC_API_KEY", "GEMINI_API_KEY",
     "AI_MODEL", "AI_MAX_TOKENS", "AI_TEMPERATURE"}

\* The values a variable is set to (besides being deleted).
EnvValues(var) ==
    CASE var = "AI_PROVIDER" ->
            {Str(<<>>), Str(s_OpenAI), Str(s_anthropic), Str(s_gemini), Str(s_unknown)}
      [] var = "OPENAI_API_KEY" -> {Str(<<>>), Str(s_testkey)}
      [] var = "ANTHROPIC_API_KEY" -> {Str(<<"s","k","-","a","n","t">>)}
      [] var = "GEMINI_API_KEY" -> {Str(<<"A","I","z","a">>)}
      [] var = "AI_MODEL" -> {Str(s_gpt4)}
      [] var = "AI_MAX_TOKENS" -> {Str(<<"5","0","0">>)}
      [] var = "AI_TEMPERATURE" -> {Str(<<"0",".","5">>)}

EmptyEnv == [v \in EnvVars |-> Undefined]

-----------------------------------------------------------------------------
(* Calls of the factory *)

NoCall == [op |-> "none"]

\* How many calls of validateProvider may await validateCredentials at once.
MaxValidating == 1

Create(config) ==
    /\ factoryCall' = [op |-> "create", config |-> config, result |-> create(config)]
    /\ UNCHANGED <<env, aiProvider, pending, lastOp>>

\* A call in flight: the operation, its input, the promise it awaits
\* (stage) and, for the document reads, which one (at).
Awaiting(op, input, stage, at) ==
    [op |-> op, input |-> input, stage |-> stage, at |-> at]

\* s without its i-th element.
Remove(s, i) == SubSeq(s, 1, i - 1) \o SubSeq(s, i + 1, Len(s))

\* validateProvider(config) up to its await: when create raises, the catch
\* runs at once and the promise returned is already resolved with false;
\* otherwise validateCredentials() is called and the promise returned stays
\* pending until that call settles.
ValidateProvider(config) ==
    /\ IF Threw(create(config))
       THEN /\ factoryCall' = [op |-> "validateProvider", config |-> config,
                               probe |-> "unreached",
                               result |-> validateProvider(config, "unreached")]
            /\ UNCHANGED pending
       ELSE /\ Len(pending) < MaxValidating
            /\ pending' = Append(pending,
                                 Awaiting("validateProvider", config,
                                          "validateCredentials", 0))
            /\ factoryCall' = [op |-> "validateProvider called", config |-> config]
    /\ UNCHANGED <<env, aiProvider, lastOp>>

\* provider.validateCredentials() settles (probe: resolves true, resolves
\* false, or rejects) and the validateProvider awaiting it settles.
ValidateCredentialsSettles(probe) ==
    /\ \E i \in DOMAIN pending :
          /\ pending[i].stage = "validateCredentials"
          /\ factoryCall' = [op |-> "validateProvider", config |-> pending[i].input,
                             probe |-> probe,
                             result |-> validateProvider(pending[i].input, probe)]
          /\ pending' = Remove(pending, i)
    /\ UNCHANGED <<env, aiProvider, lastOp>>

GetSupportedProviders ==
    /\ factoryCall' = [op |-> "getSupportedProviders", result |-> Return(getSupportedProviders)]
    /\ UNCHANGED <<env, aiProvider, pending, lastOp>>

\* process.env[var] = val.  factoryCall records the last call made in the
\* present environment, so a change of the environment clears it.
SetEnv(var, val) ==
    /\ env' = [env EXCEPT ![var] = val]
    /\ factoryCall' = NoCall
    /\ UNCHANGED <<aiProvider, pending, lastOp>>

\* delete process.env[var]
DeleteEnv(var) ==
    /\ env' = [env EXCEPT ![var] = Undefined]
    /\ factoryCall' = NoCall
    /\ UNCHANGED <<aiProvider, pending, lastOp>>

CreateFromEnv ==
    /\ factoryCall' = [op |-> "createFromEnv", result |-> createFromEnv(env)]
    /\ UNCHANGED <<env, aiProvider, pending, lastOp>>

NoProvider == [class |-> "none"]
Unconstructed == [class |-> "unconstructed"]
NoOp == [op |-> "none"]

FactoryInit ==
    /\ env = EmptyEnv
    /\ factoryCall = NoCall
    /\ aiProvider = NoProvider
    /\ pending = <<>>
    /\ lastOp = NoOp

FactoryNext ==
    \/ \E c \in ProviderConfigs : Create(c)
    \/ \E c \in ProviderConfigs : ValidateProvider(c)
    \/ \E probe \in Probes : ValidateCredentialsSettles(probe)
    \/ GetSupportedProviders

\* Calls of create, validateProvider and getSupportedProviders with explicit
\* configurations; create and getSupportedProviders may run while a
\* validateProvider awaits validateCredentials.
FactorySpec == FactoryInit /\ [][FactoryNext]_vars

\* provider.validateCredentials() on an adapter create built
ValidateCredentials(provider, http) ==
    /\ factoryCall' = [op |-> "validateCredentials", provider |-> provider,
                       http |-> http, result |-> validateCredentials(provider, http)]
    /\ UNCHANGED <<env, aiProvider, pending, lastOp>>

\* provider.analyze(request) on an adapter create built
Analyze(provider, http) ==
    /\ factoryCall' = [op |-> "analyze", provider |-> provider,
                       http |-> http, result |-> analyze(provider, http)]
    /\ UNCHANGED <<env, aiProvider, pending, lastOp>>

EnvNext ==
    \/ \E v \in EnvVars : \E val \in EnvValues(v) : SetEnv(v, val)
    \/ \E v \in EnvVars : DeleteEnv(v)
    \/ CreateFromEnv
    \/ GetSupportedProviders

\* The process environment changing between calls of createFromEnv.
EnvSpec == FactoryInit /\ [][EnvNext]_vars

-----------------------------------------------------------------------------
(* JSON.parse *)

ParseFail == [ok |-> FALSE]
ParseOk(v, next) == [ok |-> TRUE, val |-> v, next |-> next]

IsJsonSpace(c) == c \in {" ", "\t", "\n", "\r"}
RECURSIVE SkipWs(_, _)
SkipWs(s, i) == IF i <= Len(s) /\ IsJsonSpace(s[i]) THEN SkipWs(s, i + 1) ELSE i

\* s[i..] starts with the characters of word.
StartsWith(s, i, word) ==
    /\ i + Len(word) - 1 <= Len(s)
    /\ \A j \in 1..Len(word) : s[i + j - 1] = word[j]

\* The characters of a string literal whose opening quote is at i - 1:
\* scans from i to the closing quote.  Control characters are not allowed
\* inside a literal; the escapes \" \\ \/ \n \t \r are decoded (the model's
\* texts use no other escape).
RECURSIVE ParseChars(_, _, _)
ParseChars(s, i, acc) ==
    IF i > Len(s) THEN ParseFail
    ELSE IF s[i] = "\"" THEN ParseOk(Str(acc), i + 1)
    ELSE IF s[i] \in {"\n", "\t", "\r"} THEN ParseFail
    ELSE IF s[i] = "\\"
         THEN IF i + 1 > Len(s) THEN ParseFail
              ELSE CASE s[i + 1] \in {"\"", "\\", "/"} ->
                          ParseChars(s, i + 2, Append(acc, s[i + 1]))
                     [] s[i + 1] = "n" -> ParseChars(s, i + 2, Append(acc, "\n"))
                     [] s[i + 1] = "t" -> ParseChars(s, i + 2, Append(acc, "\t"))
                     [] s[i + 1] = "r" -> ParseChars(s, i + 2, Append(acc, "\r"))
                     [] OTHER -> ParseFail
    ELSE ParseChars(s, i + 1, Append(acc, s[i]))

\* A number starting at i: -? (0 | [1-9][0-9]*) (. [0-9]+)?
ParseNumber(s, i) ==
    LET neg == s[i] = "-"
        d == IF neg THEN i + 1 ELSE i
        e == SkipDigits(s, d)
        hasDot == e <= Len(s) /\ s[e] = "."
        f == IF hasDot THEN SkipDigits(s, e + 1) ELSE e
        fracLen == IF hasDot THEN f - (e + 1) ELSE 0
        sign == IF neg THEN -1 ELSE 1
    IN  IF e = d \/ (s[d] = "0" /\ e > d + 1) \/ (hasDot /\ fracLen = 0)
        THEN ParseFail
        ELSE ParseOk(Dec(sign * (DigitsValue(s, d, e) * Pow10(fracLen)
                                 + (IF hasDot THEN DigitsValue(s, e + 1, f) ELSE 0)),
                         fracLen),
                     f)

RECURSIVE ParseValue(_, _)
RECURSIVE ParseElements(_, _, _)
RECURSIVE ParseMembers(_, _, _)

\* After an element of an array, at j: "]" ends the array, "," continues it.
ElementsSep(s, acc, j) ==
    IF j > Len(s) THEN ParseFail
    ELSE IF s[j] = "]" THEN ParseOk(Arr(acc), j + 1)
    ELSE IF s[j] = "," THEN ParseElements(s, j + 1, acc)
    ELSE ParseFail

ElementsNext(s, acc, v) ==
    IF ~v.ok THEN ParseFail
    ELSE ElementsSep(s, Append(acc, v.val), SkipWs(s, v.next))

\* The elements of an array from i on, acc being those before.
ParseElements(s, i, acc) == ElementsNext(s, acc, ParseValue(s, i))

\* After a member of an object, at j: "}" ends the object, "," continues it.
MemberSep(s, members, j) ==
    IF j > Len(s) THEN ParseFail
    ELSE IF s[j] = "}" THEN ParseOk(Obj(members), j + 1)
    ELSE IF s[j] = "," THEN ParseMembers(s, j + 1, members)
    ELSE ParseFail

\* A repeated key keeps its last value.
MemberNext(s, members, name, v) ==
    IF ~v.ok THEN ParseFail
    ELSE MemberSep(s, (Text(name) :> v.val) @@ members, SkipWs(s, v.next))

MemberValue(s, members, name, c) ==
    IF c > Len(s) \/ s[c] # ":" THEN ParseFail
    ELSE MemberNext(s, members, name, ParseValue(s, c + 1))

MemberColon(s, members, key) ==
    IF ~key.ok THEN ParseFail
    ELSE MemberValue(s, members, key.val.str, SkipWs(s, key.next))

MemberKey(s, members, k) ==
    IF k > Len(s) \/ s[k] # "\"" THEN ParseFail
    ELSE MemberColon(s, members, ParseChars(s, k + 1, <<>>))

\* The members of an object from i on: "key" : value, members being those
\* before.
ParseMembers(s, i, members) == MemberKey(s, members, SkipWs(s, i))

\* After "{" (closing = "}") or "[" (closing = "]"), at j.
AfterOpen(s, j, closing) ==
    IF j <= Len(s) /\ s[j] = closing
    THEN ParseOk(IF closing = "}" THEN Obj(<<>>) ELSE Arr(<<>>), j + 1)
    ELSE IF closing = "}" THEN ParseMembers(s, j, <<>>)
    ELSE ParseElements(s, j, <<>>)

\* The value whose first character is at i.
ValueAt(s, i) ==
    IF i > Len(s) THEN ParseFail
    ELSE CASE s[i] = "{" -> AfterOpen(s, SkipWs(s, i + 1), "}")
           [] s[i] = "[" -> AfterOpen(s, SkipWs(s, i + 1), "]")
           [] s[i] = "\"" -> ParseChars(s, i + 1, <<>>)
           [] s[i] = "-" \/ IsDigit(s[i]) -> ParseNumber(s, i)
           [] StartsWith(s, i, <<"t","r","u","e">>) -> ParseOk(Bool(TRUE), i + 4)
           [] StartsWith(s, i, <<"f","a","l","s","e">>) -> ParseOk(Bool(FALSE), i + 5)
           [] StartsWith(s, i, <<"n","u","l","l">>) -> ParseOk(Null, i + 4)
           [] OTHER -> ParseFail

ParseValue(s, i) == ValueAt(s, SkipWs(s, i))

\* String(v) for the values a response's result field holds.
StringOf(v) ==
    CASE v = Undefined -> <<"u","n","d","e","f","i","n","e","d">>
      [] v = Null -> <<"n","u","l","l">>
      [] OTHER -> v.str

\* JSON.parse(v): the parsed value, or a SyntaxError.
WholeText(s, r) ==
    IF r.ok /\ SkipWs(s, r.next) = Len(s) + 1
    THEN Return(r.val)
    ELSE Throw("SyntaxError")

JSONparse(v) == WholeText(StringOf(v), ParseValue(StringOf(v), 1))

\* Array.isArray(v)
isArray(v) == IsArr(v)

\* v[key] for a parsed value: a TypeError on null and undefined, the
\* member of an object, undefined otherwise.
HasMember(v, key) == IsObj(v) /\ key \in DOMAIN v.obj
Member(v, key) == IF HasMember(v, key) THEN v.obj[key] ELSE Undefined
MemberThrows(v) == v = Null \/ v = Undefined

-----------------------------------------------------------------------------
(* Texts: a README is a text followed by fill copies of the character "z",  *)
(* so that the length thresholds are reached by short texts.                *)

FillChar == "z"
Content(text, fill) == [text |-> text, fill |-> fill]
Length(content) == Len(content.text) + content.fill

\* The first n characters of the filler.
Filler(n) == [i \in 1..n |-> FillChar]

Min(a, b) == IF a < b THEN a ELSE b

\* /word/i.test(content) for a literal word (given in lower case): a match
\* of Len(word) characters lies in the text followed by at most Len(word)
\* characters of the filler.
TestWord(word, content) ==
    LET s == toLowerCase(content.text \o Filler(Min(content.fill, Len(word))))
    IN  \E i \in 1..(Len(s) - Len(word) + 1) :
            \A j \in 1..Len(word) : s[i + j - 1] = word[j]

w_installation == <<"i","n","s","t","a","l","l","a","t","i","o","n">>
w_usage == <<"u","s","a","g","e">>
w_example == <<"e","x","a","m","p","l","e">>
w_api == <<"a","p","i">>
w_reference == <<"r","e","f","e","r","e","n","c","e">>
w_contributing == <<"c","o","n","t","r","i","b","u","t","i","n","g">>
w_license == <<"l","i","c","e","n","s","e">>

\* AIAnalyzer.calculateBasicReadmeScore(content)
calculateBasicReadmeScore(content) ==
    LET score ==
          (IF Length(content) > 500 THEN 20 ELSE 0)
        + (IF Length(content) > 1500 THEN 10 ELSE 0)
        + (IF TestWord(w_installation, content) THEN 15 ELSE 0)
        + (IF TestWord(w_usage, content) THEN 15 ELSE 0)
        + (IF TestWord(w_example, content) THEN 10 ELSE 0)
        + (IF TestWord(w_api, content) \/ TestWord(w_reference, content) THEN 10 ELSE 0)
        + (IF TestWord(w_contributing, content) THEN 10 ELSE 0)
        + (IF TestWord(w_license, content) THEN 10 ELSE 0)
    IN  Min(score, 100)

\* DocumentationAnalyzer.calculateReadmeQuality (src/src/index.ts).  Its
\* regular expressions are matched on the text followed by one character of
\* the filler, which is as far as a match can reach into it.

\* The backquote, which a TLA+ string cannot hold, as a character of its own.
Backtick == "backquote"

Materialized(content) == content.text \o Filler(Min(content.fill, 1))

\* \s of the characters the texts hold
IsWhite(c) == c \in {" ", "\t", "\n", "\r", "\f"}
\* . matches any character but a line terminator
IsDot(c) == c \notin {"\n", "\r"}
NoBreak(s, lo, hi) == \A k \in lo..hi : IsDot(s[k])

\* word (in lower case) stands at position i of s, in any letter case
WordAt(s, i, word) ==
    /\ i + Len(word) - 1 <= Len(s)
    /\ toLowerCase(SubSeq(s, i, i + Len(word) - 1)) = word

\* \s+ from position i: the positions a following token can start at
AfterWhite(s, i) ==
    {j \in (i + 1)..(Len(s) + 1) : \A k \in i..(j - 1) : IsWhite(s[k])}

\* /^#\s+.+/m
HasTitle(s) ==
    \E i \in 1..Len(s) :
        /\ i = 1 \/ ~IsDot(s[i - 1])
        /\ s[i] = "#"
        /\ \E j \in AfterWhite(s, i + 1) : j <= Len(s) /\ IsDot(s[j])

\* /##\s+(words)/i for a set of words
HasSection(s, words) ==
    \E i \in 1..Len(s) :
        /\ WordAt(s, i, <<"#", "#">>)
        /\ \E j \in AfterWhite(s, i + 2) : \E w \in words : WordAt(s, j, w)

\* Quick\s+Start at position j
QuickStartAt(s, j) ==
    /\ WordAt(s, j, <<"q","u","i","c","k">>)
    /\ \E k \in AfterWhite(s, j + 5) : WordAt(s, k, <<"s","t","a","r","t">>)

\* /##\s+(Installation|Install|Setup)/i
HasInstallSection(s) ==
    HasSection(s, {<<"i","n","s","t","a","l","l","a","t","i","o","n">>,
                   <<"i","n","s","t","a","l","l">>, <<"s","e","t","u","p">>})

\* /##\s+(Usage|Example|Quick\s+Start)/i
HasUsageSection(s) ==
    \/ HasSection(s, {<<"u","s","a","g","e">>, <<"e","x","a","m","p","l","e">>})
    \/ \E i \in 1..Len(s) :
          /\ WordAt(s, i, <<"#", "#">>)
          /\ \E j \in AfterWhite(s, i + 2) : QuickStartAt(s, j)

\* Three backquotes, then any characters, then three backquotes
HasCodeFence(s) ==
    LET fence == <<Backtick, Backtick, Backtick>>
    IN  \E i \in 1..Len(s) :
            /\ WordAt(s, i, fence)
            /\ \E j \in (i + 3)..Len(s) : WordAt(s, j, fence)

\* The closing bracket and opening parenthesis at positions b and b + 1 end
\* a bracket that opener begins on the same line, with at least "least"
\* characters inside, and begin a parenthesis closed on that line likewise.
BracketPair(s, opener, b, least) ==
    /\ b + 1 <= Len(s)
    /\ s[b] = "]"
    /\ s[b + 1] = "("
    /\ \E a \in 1..(b - least - Len(opener)) :
          WordAt(s, a, opener) /\ NoBreak(s, a + Len(opener), b - 1)
    /\ \E c \in (b + 2 + least)..Len(s) : s[c] = ")" /\ NoBreak(s, b + 2, c - 1)

\* /\[.+\]\(.+\)/
HasLink(s) == \E b \in 1..Len(s) : BracketPair(s, <<"[">>, b, 1)

\* /!\[.*\]\(.*\)/
HasBadge(s) == \E b \in 1..Len(s) : BracketPair(s, <<"!", "[">>, b, 0)

\* DocumentationAnalyzer.calculateReadmeQuality(content); content is Null
\* when the repository has no README.
calculateReadmeQuality(content) ==
    IF content = Null \/ Length(content) = 0 THEN 0
    ELSE LET s == Materialized(content)
             score ==
                 (IF Length(content) >= 500 THEN 20
                  ELSE IF Length(content) >= 200 THEN 10 ELSE 0)
               + (IF HasTitle(s) THEN 10 ELSE 0)
               + (IF Length(content) > 100 THEN 10 ELSE 0)
               + (IF HasInstallSection(s) THEN 15 ELSE 0)
               + (IF HasUsageSection(s) THEN 15 ELSE 0)
               + (IF HasCodeFence(s) THEN 10 ELSE 0)
               + (IF HasLink(s) THEN 10 ELSE 0)
               + (IF HasBadge(s) THEN 10 ELSE 0)
         IN  Min(score, 100)

\* Timestamps are in seconds (TLC's integers are 32 bits wide), so a day is
\* 60 * 60 * 24 of them where the code divides milliseconds by 1000 * 60 * 60 * 24.
SecondsPerDay == 86400

\* Immediate: Add automated testing (Jest/Mocha)
r_tests ==
    <<"I","m","m","e","d","i","a","t","e",":"," ","A","d","d"," ","a","u","t","o","m",
      "a","t","e","d"," ","t","e","s","t","i","n","g"," ","(","J","e","s","t","/","M",
      "o","c","h","a",")">>

\* Immediate: Set up CI/CD with GitHub Actions
r_cicd ==
    <<"I","m","m","e","d","i","a","t","e",":"," ","S","e","t"," ","u","p"," ","C","I",
      "/","C","D"," ","w","i","t","h"," ","G","i","t","H","u","b"," ","A","c","t","i",
      "o","n","s">>

\* Short-term: Update dependencies to latest versions
r_deps ==
    <<"S","h","o","r","t","-","t","e","r","m",":"," ","U","p","d","a","t","e"," ","d",
      "e","p","e","n","d","e","n","c","i","e","s"," ","t","o"," ","l","a","t","e","s",
      "t"," ","v","e","r","s","i","o","n","s">>

\* Long-term: Implement comprehensive documentation
r_docs ==
    <<"L","o","n","g","-","t","e","r","m",":"," ","I","m","p","l","e","m","e","n","t",
      " ","c","o","m","p","r","e","h","e","n","s","i","v","e"," ","d","o","c","u","m",
      "e","n","t","a","t","i","o","n">>

\* Long-term: Increase test coverage to 80%+
r_coverage ==
    <<"L","o","n","g","-","t","e","r","m",":"," ","I","n","c","r","e","a","s","e"," ",
      "t","e","s","t"," ","c","o","v","e","r","a","g","e"," ","t","o"," ","8","0","%",
      "+">>

\* generateBasicRoadmap with the threshold compared by >= instead of >.
generateBasicRoadmap_thresholdInclusive(context, now) ==
    LET daysSinceUpdate == (now - context.lastUpdate) \div SecondsPerDay
    IN  Arr((IF ~context.hasTests THEN <<Str(r_tests)>> ELSE <<>>)
            \o (IF ~context.hasCICD THEN <<Str(r_cicd)>> ELSE <<>>)
            \o (IF daysSinceUpdate >= 180 THEN <<Str(r_deps)>> ELSE <<>>)
            \o <<Str(r_docs), Str(r_coverage)>>)

\* AIAnalyzer.generateBasicRoadmap(context), with Date.now() = now
generateBasicRoadmap(context, now) ==
    LET daysSinceUpdate == (now - context.lastUpdate) \div SecondsPerDay
    IN  Arr((IF ~context.hasTests THEN <<Str(r_tests)>> ELSE <<>>)
            \o (IF ~context.hasCICD THEN <<Str(r_cicd)>> ELSE <<>>)
            \o (IF daysSinceUpdate > 180 THEN <<Str(r_deps)>> ELSE <<>>)
            \o <<Str(r_docs), Str(r_coverage)>>)

-----------------------------------------------------------------------------
(* AIAnalyzer *)

\* The constructor calling create for every configuration given, with or
\* without a key.
AIAnalyzerNew_alwaysCreate(aiConfig) ==
    IF aiConfig # Undefined
    THEN LET made == create([provider |-> aiConfig.provider,
                             apiKey |-> aiConfig.apiKey,
                             model |-> aiConfig.model,
                             maxTokens |-> aiConfig.maxTokens,
                             temperature |-> aiConfig.temperature])
         IN  IF Threw(made) THEN Throw(made.message) ELSE Return(made.value)
    ELSE Return(NoProvider)

\* new AIAnalyzer(aiConfig): the aiProvider field of the new object, or
\* the error create raised.
AIAnalyzerNew(aiConfig) ==
    IF aiConfig # Undefined /\ Truthy(aiConfig.apiKey)
    THEN LET made == create([provider |-> aiConfig.provider,
                             apiKey |-> aiConfig.apiKey,
                             model |-> aiConfig.model,
                             maxTokens |-> aiConfig.maxTokens,
                             temperature |-> aiConfig.temperature])
         IN  IF Threw(made) THEN Throw(made.message) ELSE Return(made.value)
    ELSE Return(NoProvider)

\* AIAnalyzer.isAIAvailable()
isAIAvailable(provider) == provider # NoProvider

\* What an operation yields: its result, the requests it sent to
\* aiProvider.analyze, and whether it took its fallback.
Yield(result, requests, fallback) ==
    [result |-> result, requests |-> requests, fallback |-> fallback]

\* content.slice(0, n)
Slice(content, n) ==
    IF Len(content.text) >= n
    THEN Content(SubSeq(content.text, 1, n), 0)
    ELSE Content(content.text, Min(content.fill, n - Len(content.text)))

\* The request each operation passes to aiProvider.analyze.  The content of
\* a joined snapshot is kept as the list of its parts.
ReadmeRequest(content) ==
    [prompt |-> "readme", content |-> content,
     maxTokens |-> Num(1000), temperature |-> Dec(5, 1)]
CodeQualityRequest(files) ==
    [prompt |-> "codeQuality",
     content |-> [i \in 1..Min(5, Len(files)) |->
                    [path |-> files[i].path, content |-> Slice(files[i].content, 500)]],
     maxTokens |-> Num(800), temperature |-> Dec(3, 1)]
SecurityRequest(codeSnippets) ==
    [prompt |-> "security",
     content |-> SubSeq(codeSnippets, 1, Min(3, Len(codeSnippets))),
     maxTokens |-> Num(500), temperature |-> Dec(2, 1)]
RoadmapRequest(context) ==
    [prompt |-> "roadmap", content |-> context,
     maxTokens |-> Num(600), temperature |-> Dec(6, 1)]

\* analyzeReadme without its catch: a failed call or parse escapes.
analyzeReadme_noCatch(provider, readmeContent, answer) ==
    IF ~isAIAvailable(provider)
    THEN Yield(Throw("AI provider not configured"), <<>>, FALSE)
    ELSE IF Threw(answer)
    THEN Yield(Throw(answer.message), <<ReadmeRequest(readmeContent)>>, FALSE)
    ELSE IF Threw(JSONparse(answer.value.result))
    THEN Yield(Throw("SyntaxError"), <<ReadmeRequest(readmeContent)>>, FALSE)
    ELSE IF MemberThrows(JSONparse(answer.value.result).value)
    THEN Yield(Throw("TypeError"), <<ReadmeRequest(readmeContent)>>, FALSE)
    ELSE Yield(Return([qualityScore |->
                           OrElse(Member(JSONparse(answer.value.result).value, "score"),
                                  Num(50)),
                       suggestions |->
                           OrElse(Member(JSONparse(answer.value.result).value, "suggestions"),
                                  Arr(<<>>))]),
               <<ReadmeRequest(readmeContent)>>, FALSE)

\* analyzeReadme taking its heuristic when no adapter is configured, as
\* generateModernizationRoadmap does.
analyzeReadme_heuristicWhenUnconfigured(provider, readmeContent, answer) ==
    IF ~isAIAvailable(provider) \/ Threw(answer)
       \/ Threw(JSONparse(answer.value.result))
       \/ MemberThrows(JSONparse(answer.value.result).value)
    THEN Yield(Return([qualityScore |-> Num(calculateBasicReadmeScore(readmeContent)),
                       suggestions |-> Arr(<<>>)]),
               IF isAIAvailable(provider) THEN <<ReadmeRequest(readmeContent)>> ELSE <<>>,
               TRUE)
    ELSE Yield(Return([qualityScore |->
                           OrElse(Member(JSONparse(answer.value.result).value, "score"),
                                  Num(50)),
                       suggestions |->
                           OrElse(Member(JSONparse(answer.value.result).value, "suggestions"),
                                  Arr(<<>>))]),
               <<ReadmeRequest(readmeContent)>>, FALSE)

\* analyzeReadme defaulting with ?? instead of ||: a score of 0 is kept.
analyzeReadme_nullishDefault(provider, readmeContent, answer) ==
    IF ~isAIAvailable(provider)
    THEN Yield(Throw("AI provider not configured"), <<>>, FALSE)
    ELSE IF \/ Threw(answer)
            \/ Threw(JSONparse(answer.value.result))
            \/ MemberThrows(JSONparse(answer.value.result).value)
         THEN Yield(Return([qualityScore |-> Num(calculateBasicReadmeScore(readmeContent)),
                            suggestions |-> Arr(<<>>)]),
                    <<ReadmeRequest(readmeContent)>>, TRUE)
         ELSE Yield(Return([qualityScore |->
                                IF Member(JSONparse(answer.value.result).value, "score")
                                      \in {Undefined, Null}
                                THEN Num(50)
                                ELSE Member(JSONparse(answer.value.result).value, "score"),
                            suggestions |->
                                OrElse(Member(JSONparse(answer.value.result).value,
                                              "suggestions"), Arr(<<>>))]),
                    <<ReadmeRequest(readmeContent)>>, FALSE)

\* AIAnalyzer.analyzeReadme(readmeContent), given what aiProvider.analyze
\* answers: Throw(message) or Return(response).
analyzeReadme(provider, readmeContent, answer) ==
    IF ~isAIAvailable(provider)
    THEN Yield(Throw("AI provider not configured"), <<>>, FALSE)
    ELSE LET parsed == JSONparse(answer.value.result)
             failed == Threw(answer) \/ Threw(parsed) \/ MemberThrows(parsed.value)
         IN  IF failed
             THEN Yield(Return([qualityScore |-> Num(calculateBasicReadmeScore(readmeContent)),
                                suggestions |-> Arr(<<>>)]),
                        <<ReadmeRequest(readmeContent)>>, TRUE)
             ELSE Yield(Return([qualityScore |-> OrElse(Member(parsed.value, "score"), Num(50)),
                                suggestions |-> OrElse(Member(parsed.value, "suggestions"),
                                                       Arr(<<>>))]),
                        <<ReadmeRequest(readmeContent)>>, FALSE)

\* analyzeCodeQuality returning its default when no adapter is configured.
analyzeCodeQuality_defaultWhenUnconfigured(provider, files, answer) ==
    IF ~isAIAvailable(provider) \/ Threw(answer)
       \/ Threw(JSONparse(answer.value.result))
       \/ MemberThrows(JSONparse(answer.value.result).value)
    THEN Yield(Return([insights |-> Arr(<<>>), architectureScore |-> Num(70)]),
               IF isAIAvailable(provider) THEN <<CodeQualityRequest(files)>> ELSE <<>>,
               TRUE)
    ELSE Yield(Return([insights |->
                           OrElse(Member(JSONparse(answer.value.result).value, "insights"),
                                  Arr(<<>>)),
                       architectureScore |->
                           OrElse(Member(JSONparse(answer.value.result).value, "score"),
                                  Num(70))]),
               <<CodeQualityRequest(files)>>, FALSE)

\* analyzeCodeQuality whose catch returns the README default 50.
analyzeCodeQuality_readmeDefault(provider, files, answer) ==
    IF ~isAIAvailable(provider)
    THEN Yield(Throw("AI provider not configured"), <<>>, FALSE)
    ELSE IF \/ Threw(answer)
            \/ Threw(JSONparse(answer.value.result))
            \/ MemberThrows(JSONparse(answer.value.result).value)
         THEN Yield(Return([insights |-> Arr(<<>>), architectureScore |-> Num(50)]),
                    <<CodeQualityRequest(files)>>, TRUE)
         ELSE Yield(Return([insights |->
                                OrElse(Member(JSONparse(answer.value.result).value,
                                              "insights"), Arr(<<>>)),
                            architectureScore |->
                                OrElse(Member(JSONparse(answer.value.result).value,
                                              "score"), Num(70))]),
                    <<CodeQualityRequest(files)>>, FALSE)

\* AIAnalyzer.analyzeCodeQuality(files)
analyzeCodeQuality(provider, files, answer) ==
    IF ~isAIAvailable(provider)
    THEN Yield(Throw("AI provider not configured"), <<>>, FALSE)
    ELSE LET parsed == JSONparse(answer.value.result)
             failed == Threw(answer) \/ Threw(parsed) \/ MemberThrows(parsed.value)
         IN  IF failed
             THEN Yield(Return([insights |-> Arr(<<>>), architectureScore |-> Num(70)]),
                        <<CodeQualityRequest(files)>>, TRUE)
             ELSE Yield(Return([insights |-> OrElse(Member(parsed.value, "insights"), Arr(<<>>)),
                                architectureScore |-> OrElse(Member(parsed.value, "score"),
                                                             Num(70))]),
                        <<CodeQualityRequest(files)>>, FALSE)

\* analyzeSecurityConcerns returning whatever was parsed, array or not.
analyzeSecurityConcerns_noArrayCheck(provider, codeSnippets, answer) ==
    IF ~isAIAvailable(provider)
    THEN Yield(Return(Arr(<<>>)), <<>>, FALSE)
    ELSE IF Threw(answer) \/ Threw(JSONparse(answer.value.result))
    THEN Yield(Return(Arr(<<>>)), <<SecurityRequest(codeSnippets)>>, TRUE)
    ELSE Yield(Return(JSONparse(answer.value.result).value),
               <<SecurityRequest(codeSnippets)>>, FALSE)

\* analyzeSecurityConcerns repeating the vendor call once after a failure
\* before giving up, which the source never does.
analyzeSecurityConcerns_retryOnce(provider, codeSnippets, answer) ==
    IF ~isAIAvailable(provider)
    THEN Yield(Return(Arr(<<>>)), <<>>, FALSE)
    ELSE IF Threw(answer) \/ Threw(JSONparse(answer.value.result))
         THEN Yield(Return(Arr(<<>>)),
                    <<SecurityRequest(codeSnippets), SecurityRequest(codeSnippets)>>, TRUE)
         ELSE Yield(Return(IF isArray(JSONparse(answer.value.result).value)
                           THEN JSONparse(answer.value.result).value ELSE Arr(<<>>)),
                    <<SecurityRequest(codeSnippets)>>, FALSE)

\* AIAnalyzer.analyzeSecurityConcerns(codeSnippets)
analyzeSecurityConcerns(provider, codeSnippets, answer) ==
    IF ~isAIAvailable(provider)
    THEN Yield(Return(Arr(<<>>)), <<>>, FALSE)
    ELSE LET parsed == JSONparse(answer.value.result)
             failed == Threw(answer) \/ Threw(parsed)
         IN  IF failed
             THEN Yield(Return(Arr(<<>>)), <<SecurityRequest(codeSnippets)>>, TRUE)
             ELSE Yield(Return(IF isArray(parsed.value) THEN parsed.value ELSE Arr(<<>>)),
                        <<SecurityRequest(codeSnippets)>>, FALSE)

\* generateModernizationRoadmap answering the empty list, as the security
\* scan does, wherever the code falls back to the heuristic.
generateModernizationRoadmap_emptyOnFailure(provider, input, answer) ==
    IF ~isAIAvailable(provider)
    THEN Yield(Return(generateBasicRoadmap(input.context, input.now)), <<>>, TRUE)
    ELSE IF Threw(answer) \/ Threw(JSONparse(answer.value.result))
         THEN Yield(Return(Arr(<<>>)), <<RoadmapRequest(input.context)>>, TRUE)
         ELSE IF isArray(JSONparse(answer.value.result).value)
              THEN Yield(Return(JSONparse(answer.value.result).value),
                         <<RoadmapRequest(input.context)>>, FALSE)
              ELSE Yield(Return(Arr(<<>>)), <<RoadmapRequest(input.context)>>, TRUE)

\* AIAnalyzer.generateModernizationRoadmap(context); the input carries the
\* context and the clock reading Date.now() of the heuristic.
generateModernizationRoadmap(provider, input, answer) ==
    IF ~isAIAvailable(provider)
    THEN Yield(Return(generateBasicRoadmap(input.context, input.now)), <<>>, TRUE)
    ELSE LET parsed == JSONparse(answer.value.result)
             failed == Threw(answer) \/ Threw(parsed)
         IN  IF failed
             THEN Yield(Return(generateBasicRoadmap(input.context, input.now)),
                        <<RoadmapRequest(input.context)>>, TRUE)
             ELSE IF isArray(parsed.value)
                  THEN Yield(Return(parsed.value), <<RoadmapRequest(input.context)>>, FALSE)
                  ELSE Yield(Return(generateBasicRoadmap(input.context, input.now)),
                             <<RoadmapRequest(input.context)>>, TRUE)

\* The readmeQuality DocumentationAnalyzer.analyze computes for the content
\* of README.md (Null when the file is missing); provider is the adapter of
\* its aiAnalyzer, NoProvider when it holds none.
readmeQuality(provider, readmeContent, answer) ==
    IF readmeContent # Null /\ Length(readmeContent) > 0 /\ isAIAvailable(provider)
    THEN LET aiResult == analyzeReadme(provider, readmeContent, answer)
         IN  IF Threw(aiResult.result)
             THEN Yield(Return(Num(calculateReadmeQuality(readmeContent))),
                        aiResult.requests, TRUE)
             ELSE Yield(Return(aiResult.result.value.qualityScore),
                        aiResult.requests, aiResult.fallback)
    ELSE Yield(Return(Num(calculateReadmeQuality(readmeContent))), <<>>, TRUE)

\* The operation named op.
Run(op, provider, input, answer) ==
    CASE op = "analyzeReadme" -> analyzeReadme(provider, input, answer)
      [] op = "analyzeCodeQuality" -> analyzeCodeQuality(provider, input, answer)
      [] op = "analyzeSecurityConcerns" -> analyzeSecurityConcerns(provider, input, answer)
      [] op = "generateModernizationRoadmap" ->
            generateModernizationRoadmap(provider, input, answer)
      [] op = "documentationAnalyze" -> readmeQuality(provider, input, answer)

-----------------------------------------------------------------------------
(* Inputs of the analyzer *)

\* # Test README\n\nSome content here.
readme_test ==
    <<"#"," ","T","e","s","t"," ","R","E","A","D","M","E","\n","\n","S","o","m","e"," ",
      "c","o","n","t","e","n","t"," ","h","e","r","e",".">>

\* ## Installation\nnpm install\n\n## Usage\nSee the API reference.\n
readme_sections ==
    <<"#","#"," ","I","n","s","t","a","l","l","a","t","i","o","n","\n","n","p","m"," ",
      "i","n","s","t","a","l","l","\n","\n","#","#"," ","U","s","a","g","e","\n","S",
      "e","e"," ","t","h","e"," ","A","P","I"," ","r","e","f","e","r","e","n","c","e",
      ".","\n">>

\* License: MIT. Contributing: see EXAMPLE.md
readme_legal ==
    <<"L","i","c","e","n","s","e",":"," ","M","I","T","."," ","C","o","n","t","r","i",
      "b","u","t","i","n","g",":"," ","s","e","e"," ","E","X","A","M","P","L","E",".",
      "m","d">>

\* A README with a title, a badge, a Setup section holding a fenced block
\* (three backquotes, "npm i", three backquotes), and a "Quick  Start"
\* section with a link: 106 characters.
readme_rich ==
    <<"#"," ","D","e","m","o","\n","\n","!","[","b","u","i","l","d","]","(","h","t","t",
      "p","s",":","/","/","c","i",".","i","o","/","b",".","s","v","g",")","\n","\n","#",
      "#"," ","S","e","t","u","p","\n","\n",Backtick,Backtick,Backtick,"\n","n","p","m",
      " ","i","\n",Backtick,Backtick,Backtick,"\n","\n","#","#"," ","Q","u","i","c","k",
      " "," ","S","t","a","r","t","\n","S","e","e"," ","[","d","o","c","s","]","(","h",
      "t","t","p","s",":","/","/","d",".","i","o",")",".","\n">>

\* {"score": 85, "suggestions": ["Add usage examples"], "insights": ["Clear layering"]}
json_full ==
    <<"{","\"","s","c","o","r","e","\"",":"," ","8","5",","," ","\"","s","u","g","g",
      "e","s","t","i","o","n","s","\"",":"," ","[","\"","A","d","d"," ","u","s","a","g",
      "e"," ","e","x","a","m","p","l","e","s","\"","]",","," ","\"","i","n","s","i","g",
      "h","t","s","\"",":"," ","[","\"","C","l","e","a","r"," ","l","a","y","e","r","i",
      "n","g","\"","]","}">>

\* {"score": 0, "suggestions": [], "insights": []}
json_zero ==
    <<"{","\"","s","c","o","r","e","\"",":"," ","0",","," ","\"","s","u","g","g","e",
      "s","t","i","o","n","s","\"",":"," ","[","]",","," ","\"","i","n","s","i","g","h",
      "t","s","\"",":"," ","[","]","}">>

\* {}
json_empty ==
    <<"{","}">>

\* {"score": 150}
json_high ==
    <<"{","\"","s","c","o","r","e","\"",":"," ","1","5","0","}">>

\* ["Unsanitized input", "Hardcoded secret"]
json_list ==
    <<"[","\"","U","n","s","a","n","i","t","i","z","e","d"," ","i","n","p","u","t","\"",
      ","," ","\"","H","a","r","d","c","o","d","e","d"," ","s","e","c","r","e","t","\"",
      "]">>

\* []
json_nolist ==
    <<"[","]">>

\* null
json_null ==
    <<"n","u","l","l">>

\* "None found"
json_text ==
    <<"\"","N","o","n","e"," ","f","o","u","n","d","\"">>

\* None found
text_plain ==
    <<"N","o","n","e"," ","f","o","u","n","d">>

\* Here is the analysis:\n{"score": 85}
text_prose ==
    <<"H","e","r","e"," ","i","s"," ","t","h","e"," ","a","n","a","l","y","s","i","s",
      ":","\n","{","\"","s","c","o","r","e","\"",":"," ","8","5","}">>

\* {"score": 85, "suggestions": ["Add
text_cut ==
    <<"{","\"","s","c","o","r","e","\"",":"," ","8","5",","," ","\"","s","u","g","g",
      "e","s","t","i","o","n","s","\"",":"," ","[","\"","A","d","d">>

AnalyzerConfig(provider, apiKey, model) ==
    [provider |-> Str(provider), apiKey |-> apiKey, model |-> model,
     maxTokens |-> Undefined, temperature |-> Undefined]

AnalyzerConfigs ==
    {Undefined,
     AnalyzerConfig(s_openai, Str(<<>>), Undefined),
     AnalyzerConfig(s_openai, Str(s_testkey), Undefined),
     AnalyzerConfig(s_ANTHROPIC, Str(s_testkey), Str(s_gpt4)),
     AnalyzerConfig(s_unknown, Str(s_testkey), Undefined)}

ReadmeInputs ==
    {Content(readme_test, 0),
     Content(readme_test, 500 - Len(readme_test)),
     Content(readme_test, 501 - Len(readme_test)),
     Content(readme_test, 1501 - Len(readme_test)),
     Content(readme_sections, 0),
     Content(readme_sections, 1501 - Len(readme_sections)),
     Content(readme_legal, 0),
     Content(readme_test, 200 - Len(readme_test)),
     Content(readme_rich, 0),
     Content(readme_rich, 500 - Len(readme_rich)),
     Content(<<>>, 0)}

CodeFile(path, content) == [path |-> path, content |-> content]
CodeInputs ==
    {<<>>,
     <<CodeFile("src/a.ts", Content(readme_legal, 600)),
       CodeFile("src/b.ts", Content(readme_test, 0)),
       CodeFile("src/c.ts", Content(<<>>, 0)),
       CodeFile("src/d.ts", Content(readme_test, 0)),
       CodeFile("src/e.ts", Content(readme_test, 0)),
       CodeFile("src/f.ts", Content(readme_sections, 0))>>}

SnippetInputs ==
    {<<>>,
     <<Content(readme_legal, 0), Content(readme_test, 0),
       Content(readme_sections, 0), Content(readme_test, 10)>>}

\* The clock reading of the model, and the ages of the last update tried.
Now == 231 * SecondsPerDay
Ages == {0, 181 * SecondsPerDay - 1, 181 * SecondsPerDay}
RoadmapInputs ==
    {[context |-> [technologies |-> <<"javascript", "node">>,
                   lastUpdate |-> Now - age, hasTests |-> f[1], hasCICD |-> f[2]],
      now |-> Now] :
        age \in Ages,
        f \in {<<FALSE, FALSE>>, <<FALSE, TRUE>>, <<TRUE, FALSE>>, <<TRUE, TRUE>>}}

\* What aiProvider.analyze can answer: a transport failure, a vendor error,
\* or a response whose result is any text.
ResultValues ==
    {Str(json_full), Str(json_zero), Str(json_empty), Str(json_high),
     Str(json_list), Str(json_nolist), Str(json_null), Str(json_text),
     Str(text_plain), Str(text_prose), Str(text_cut), Undefined}

\* The outcomes of the transport: for analyze, the payload texts above.
HttpFailures ==
    {HttpFailure("Unauthorized", "Invalid API key"), HttpFailure("Bad Request", "")}
HttpOutcomes ==
    {NetworkError("fetch failed")} \cup HttpFailures
    \cup {HttpSuccess(r) : r \in ResultValues}

Answers(provider) ==
    IF provider \in {NoProvider, Unconstructed} THEN {}
    ELSE {analyze(provider, http) : http \in HttpOutcomes}

NoAnswer == [outcome |-> "none"]

\* How many operations of one analyzer may await their answer at once.
MaxPending == 2

-----------------------------------------------------------------------------
(* The analyzer's operations *)

Settled(op, input, provider, answer) ==
    LET y == Run(op, provider, input, answer)
    IN  [op |-> op, input |-> input, provider |-> provider, answer |-> answer,
         result |-> y.result, requests |-> y.requests, fallback |-> y.fallback]

Construct(aiConfig) ==
    /\ aiProvider = Unconstructed
    /\ LET made == AIAnalyzerNew(aiConfig)
       IN  /\ aiProvider' = IF Returned(made) THEN made.value ELSE Unconstructed
           /\ lastOp' = [op |-> "constructor", input |-> aiConfig, result |-> made]
    /\ UNCHANGED <<env, factoryCall, pending>>

\* An operation runs up to its await of aiProvider.analyze, or to its end
\* when it does not reach one.  The caller awaits each operation.
Begin(op, input) ==
    /\ aiProvider # Unconstructed
    /\ pending = <<>>
    /\ IF isAIAvailable(aiProvider)
       THEN /\ pending' = <<Awaiting(op, input, "analyze", 0)>>
            /\ lastOp' = NoOp
       ELSE /\ lastOp' = Settled(op, input, aiProvider, NoAnswer)
            /\ UNCHANGED pending
    /\ UNCHANGED <<env, factoryCall, aiProvider>>

AnalyzeReadme(readmeContent) == Begin("analyzeReadme", readmeContent)
AnalyzeCodeQuality(files) == Begin("analyzeCodeQuality", files)
AnalyzeSecurityConcerns(codeSnippets) == Begin("analyzeSecurityConcerns", codeSnippets)
GenerateModernizationRoadmap(input) == Begin("generateModernizationRoadmap", input)

\* The paths DocumentationAnalyzer.analyze asks hasFile for after the README:
\* CONTRIBUTING.md, then the lists of hasLicense, hasChangelog and hasApiDocs.
DocumentPaths ==
    <<"CONTRIBUTING.md",
      "LICENSE", "LICENSE.md", "LICENSE.txt", "COPYING",
      "CHANGELOG.md", "CHANGELOG", "HISTORY.md", "RELEASES.md",
      "docs/", "documentation/", "API.md", "docs/api/">>

\* The last path of the list the at-th path belongs to.
ListEnd(at) ==
    IF at = 1 THEN 1 ELSE IF at <= 5 THEN 5 ELSE IF at <= 9 THEN 9 ELSE 13

\* The path asked for after the at-th: a list is left at its first hit.
NextPath(at, found) == IF found THEN ListEnd(at) + 1 ELSE at + 1

\* DocumentationAnalyzer.analyze(owner, repo) up to its first await: it
\* calls githubClient.hasFile for README.md and returns a pending promise.
\* Calls may overlap: the caller need not await the previous one.
DocumentationAnalyze ==
    /\ aiProvider # Unconstructed
    /\ Len(pending) < MaxPending
    /\ pending' = Append(pending,
                         Awaiting("documentationAnalyze", Undefined, "hasReadme", 0))
    /\ lastOp' = NoOp
    /\ UNCHANGED <<env, factoryCall, aiProvider>>

\* A githubClient.hasFile call resolves.  After the one for README.md,
\* getFileContent is called; after one of the later paths, the next path is
\* asked for, or analyze returns its metrics when there is none left.
HasFileSettles(found) ==
    /\ \E i \in DOMAIN pending :
          /\ pending[i].stage \in {"hasReadme", "documents"}
          /\ pending' =
                IF pending[i].stage = "hasReadme"
                THEN [pending EXCEPT ![i] =
                         Awaiting("documentationAnalyze", Undefined, "getFileContent", 0)]
                ELSE IF NextPath(pending[i].at, found) > Len(DocumentPaths)
                     THEN Remove(pending, i)
                     ELSE [pending EXCEPT ![i] =
                              Awaiting("documentationAnalyze", Undefined, "documents",
                                       NextPath(pending[i].at, found))]
    /\ UNCHANGED <<env, factoryCall, aiProvider, lastOp>>

\* githubClient.getFileContent resolves with the README (Null when there is
\* none).  With a non-empty README and an available adapter analyzeReadme
\* is awaited; otherwise readmeQuality is computed and hasFile is called
\* for CONTRIBUTING.md.
GetFileContentSettles(readmeContent) ==
    /\ \E i \in DOMAIN pending :
          /\ pending[i].stage = "getFileContent"
          /\ IF /\ readmeContent # Null
                /\ Length(readmeContent) > 0
                /\ isAIAvailable(aiProvider)
             THEN /\ pending' = [pending EXCEPT ![i] =
                                    Awaiting("documentationAnalyze", readmeContent,
                                             "analyze", 0)]
                  /\ UNCHANGED lastOp
             ELSE /\ pending' = [pending EXCEPT ![i] =
                                    Awaiting("documentationAnalyze", Undefined,
                                             "documents", 1)]
                  /\ lastOp' = Settled("documentationAnalyze", readmeContent,
                                       aiProvider, NoAnswer)
    /\ UNCHANGED <<env, factoryCall, aiProvider>>

\* A promise of the GitHub client rejects: analyze has no handler around
\* its reads, so the promise it returned rejects with the same reason.
GitHubRejects(reason) ==
    /\ \E i \in DOMAIN pending :
          /\ pending[i].stage \in {"hasReadme", "getFileContent", "documents"}
          /\ pending' = Remove(pending, i)
          /\ lastOp' = [op |-> "analyze", stage |-> pending[i].stage,
                        result |-> Throw(reason)]
    /\ UNCHANGED <<env, factoryCall, aiProvider>>

\* An operation called while another one of the same analyzer still awaits
\* its answer: the caller did not await the first.
Overlap(op, input) ==
    /\ isAIAvailable(aiProvider)
    /\ pending # <<>>
    /\ Len(pending) < MaxPending
    /\ pending' = Append(pending, Awaiting(op, input, "analyze", 0))
    /\ lastOp' = NoOp
    /\ UNCHANGED <<env, factoryCall, aiProvider>>

\* An analyzer that forgets its adapter once a vendor call has failed.
AnalyzeSettles_dropsAdapterOnFailure(answer) ==
    /\ \E i \in DOMAIN pending :
          /\ pending[i].stage = "analyze"
          /\ lastOp' = Settled(pending[i].op, pending[i].input, aiProvider, answer)
          /\ pending' = IF pending[i].op = "documentationAnalyze"
                        THEN [pending EXCEPT ![i] =
                                 Awaiting("documentationAnalyze", Undefined,
                                          "documents", 1)]
                        ELSE Remove(pending, i)
    /\ aiProvider' = IF Threw(answer) THEN NoProvider ELSE aiProvider
    /\ UNCHANGED <<env, factoryCall>>

\* aiProvider.analyze settles for one of the operations awaiting it, in any
\* order, and that operation runs to its end; DocumentationAnalyzer.analyze
\* runs on to its next await, hasFile for CONTRIBUTING.md.
AnalyzeSettles(answer) ==
    /\ \E i \in DOMAIN pending :
          /\ pending[i].stage = "analyze"
          /\ lastOp' = Settled(pending[i].op, pending[i].input, aiProvider, answer)
          /\ pending' = IF pending[i].op = "documentationAnalyze"
                        THEN [pending EXCEPT ![i] =
                                 Awaiting("documentationAnalyze", Undefined,
                                          "documents", 1)]
                        ELSE Remove(pending, i)
    /\ UNCHANGED <<env, factoryCall, aiProvider>>

Init ==
    /\ env = EmptyEnv
    /\ factoryCall = NoCall
    /\ aiProvider = Unconstructed
    /\ pending = <<>>
    /\ lastOp = NoOp

Next ==
    \/ \E c \in AnalyzerConfigs : Construct(c)
    \/ \E c \in ReadmeInputs : AnalyzeReadme(c)
    \/ \E f \in CodeInputs : AnalyzeCodeQuality(f)
    \/ \E s \in SnippetInputs : AnalyzeSecurityConcerns(s)
    \/ \E i \in RoadmapInputs : GenerateModernizationRoadmap(i)
    \/ \E a \in Answers(aiProvider) : AnalyzeSettles(a)

\* One analyzer, its caller awaiting each operation.
Spec == Init /\ [][Next]_vars

\* The READMEs, vendor answers and GitHub failures tried with
\* DocumentationAnalyzer.
DocumentationContents ==
    {Null, Content(<<>>, 0), Content(readme_test, 0), Content(readme_rich, 0)}

DocumentationAnswers(provider) ==
    IF provider \in {NoProvider, Unconstructed} THEN {}
    ELSE {analyze(provider, NetworkError("fetch failed")),
          analyze(provider, HttpSuccess(Str(json_full))),
          analyze(provider, HttpSuccess(Str(text_plain)))}

GitHubFailures == {"Bad credentials"}

DocumentationNext ==
    \/ \E c \in AnalyzerConfigs : Construct(c)
    \/ DocumentationAnalyze
    \/ \E found \in BOOLEAN : HasFileSettles(found)
    \/ \E c \in DocumentationContents : GetFileContentSettles(c)
    \/ \E a \in DocumentationAnswers(aiProvider) : AnalyzeSettles(a)
    \/ \E e \in GitHubFailures : GitHubRejects(e)

\* One DocumentationAnalyzer whose analyze calls may overlap; the GitHub
\* client and the vendor settle their promises in any order.
DocumentationSpec == Init /\ [][DocumentationNext]_vars

\* The operations tried when calls on one analyzer overlap.
ConcurrentOperations ==
    {[op |-> "analyzeReadme", input |-> Content(readme_test, 0)],
     [op |-> "analyzeReadme", input |-> Content(readme_rich, 0)],
     [op |-> "analyzeCodeQuality", input |-> CHOOSE f \in CodeInputs : f # <<>>],
     [op |-> "analyzeSecurityConcerns", input |-> CHOOSE c \in SnippetInputs : c # <<>>]}
    \cup {[op |-> "generateModernizationRoadmap", input |-> i] :
              i \in {r \in RoadmapInputs :
                        /\ r.context.lastUpdate = Now
                        /\ r.context.hasTests = r.context.hasCICD}}

ConcurrentNext ==
    \/ \E c \in AnalyzerConfigs : Construct(c)
    \/ \E o \in ConcurrentOperations : Begin(o.op, o.input)
    \/ \E o \in ConcurrentOperations : Overlap(o.op, o.input)
    \/ \E a \in Answers(aiProvider) : AnalyzeSettles(a)

\* One analyzer, its caller starting operations without awaiting the
\* previous one; the vendor answers them in any order.
ConcurrentSpec == Init /\ [][ConcurrentNext]_vars

\* The configurations, environment variables and vendor answers tried when
\* maxTokens and temperature vary.
TunedConfigs ==
    {c \in ProviderConfigs :
        /\ c.provider \in {Str(s_openai), Str(s_Gemini)}
        /\ c.apiKey = Str(s_testkey)
        /\ c.model = Undefined}

TunedAnalyzerConfigs ==
    {Undefined}
    \cup {[AnalyzerConfig(s_openai, Str(s_testkey), Undefined)
              EXCEPT !.maxTokens = t.maxTokens, !.temperature = t.temperature] :
                t \in TuningValues}

TuningEnvVars == {"OPENAI_API_KEY", "AI_MAX_TOKENS", "AI_TEMPERATURE"}

TunedAnswers(provider) ==
    IF provider \in {NoProvider, Unconstructed} THEN {}
    ELSE {analyze(provider, NetworkError("fetch failed")),
          analyze(provider, HttpSuccess(Str(json_full)))}

TuningNext ==
    \/ \E c \in TunedConfigs : Create(c)
    \/ \E v \in TuningEnvVars : \E val \in EnvValues(v) : SetEnv(v, val)
    \/ \E v \in TuningEnvVars : DeleteEnv(v)
    \/ CreateFromEnv
    \/ \E c \in TunedAnalyzerConfigs : Construct(c)
    \/ \E o \in ConcurrentOperations : Begin(o.op, o.input)
    \/ \E a \in TunedAnswers(aiProvider) : AnalyzeSettles(a)

\* One process that builds adapters from configurations and from its
\* environment and runs an analyzer, maxTokens and temperature given or not.
TuningSpec == Init /\ [][TuningNext]_vars

\* The adapters create builds from the configurations above.
Providers == {create(c).value : c \in {k \in ProviderConfigs : Returned(create(k))}}

AdapterNext ==
    \/ \E p \in Providers, http \in HttpOutcomes : ValidateCredentials(p, http)
    \/ \E p \in Providers, http \in HttpOutcomes : Analyze(p, http)

\* Calls of the methods of an adapter, each with the outcome of its request.
AdapterSpec == FactoryInit /\ [][AdapterNext]_vars

-----------------------------------------------------------------------------
(* Properties *)

\* Result texts of the model that JSON.parse rejects, and those it parses
\* to something that is no array.
UnparsableResults == {Str(text_plain), Str(text_prose), Str(text_cut), Undefined}
NonArrayResults ==
    {Str(json_full), Str(json_zero), Str(json_empty), Str(json_high),
     Str(json_null), Str(json_text)}

\* The adapter's call failed, or its result text is no JSON.
AnswerUnusable(answer) ==
    Threw(answer) \/ (Returned(answer) /\ answer.value.result \in UnparsableResults)

\* C1: with an adapter, analyzeReadme never raises; when the adapter's
\* analyze call fails or its result text is not parsable as JSON, it returns
\* the heuristic README score of the same content and no suggestions.
C1_ReadmeFallsBack ==
    (lastOp.op = "analyzeReadme" /\ isAIAvailable(lastOp.provider)) =>
        /\ Returned(lastOp.result)
        /\ AnswerUnusable(lastOp.answer) =>
              lastOp.result.value =
                 [qualityScore |-> Num(calculateBasicReadmeScore(lastOp.input)),
                  suggestions |-> Arr(<<>>)]

\* A README scoring 70 by the heuristic was analysed and the vendor's text
\* was cut short.
C1_Witness ==
    /\ lastOp.op = "analyzeReadme"
    /\ isAIAvailable(lastOp.provider)
    /\ lastOp.answer = Return([result |-> Str(text_cut),
                               provider |-> getProviderName(lastOp.provider)])
    /\ lastOp.result = Return([qualityScore |-> Num(70), suggestions |-> Arr(<<>>)])

\* The configurations from which the constructor builds no adapter.
NoApiKey(aiConfig) == aiConfig = Undefined \/ aiConfig.apiKey = Str(<<>>)

\* C2: an analyzer constructed with no adapter reports isAIAvailable()
\* false, and its analyzeReadme fails with "AI provider not configured" for
\* every input, sending no request and computing no heuristic.
C2_UnconfiguredReadmeRaises ==
    /\ (lastOp.op = "constructor" /\ NoApiKey(lastOp.input)) =>
            /\ Returned(lastOp.result)
            /\ ~isAIAvailable(aiProvider)
    /\ (lastOp.op = "analyzeReadme" /\ ~isAIAvailable(lastOp.provider)) =>
            /\ lastOp.result = Throw("AI provider not configured")
            /\ lastOp.requests = <<>>
            /\ ~lastOp.fallback

\* analyzeReadme of a README with sections was refused by an analyzer built
\* from a configuration with an empty key.
C2_Witness ==
    /\ lastOp.op = "analyzeReadme"
    /\ aiProvider = NoProvider
    /\ lastOp.input = Content(readme_sections, 0)
    /\ Threw(lastOp.result)

OtherOperations ==
    {"analyzeCodeQuality", "analyzeSecurityConcerns", "generateModernizationRoadmap"}

\* C3, as stated: with no adapter, the code-quality, security and roadmap
\* operations each return a value and never raise.
C3_OnlyReadmeRaises ==
    (lastOp.op \in OtherOperations /\ ~isAIAvailable(lastOp.provider)) =>
        Returned(lastOp.result)

\* C3, amended: with no adapter, README analysis and the code-quality
\* operation both raise "AI provider not configured"; the security scan
\* returns the empty list and the roadmap operation its heuristic list.
C3_ReadmeAndCodeQualityRaise ==
    (lastOp.op \in OtherOperations \cup {"analyzeReadme"}
     /\ ~isAIAvailable(lastOp.provider)) =>
        /\ lastOp.requests = <<>>
        /\ lastOp.op \in {"analyzeReadme", "analyzeCodeQuality"} =>
              lastOp.result = Throw("AI provider not configured")
        /\ lastOp.op = "analyzeSecurityConcerns" => lastOp.result = Return(Arr(<<>>))
        /\ lastOp.op = "generateModernizationRoadmap" =>
              /\ Returned(lastOp.result)
              /\ IsArr(lastOp.result.value)
              /\ Len(lastOp.result.value.arr) >= 2

\* The code-quality operation was refused on a non-empty list of files.
C3_Witness ==
    /\ lastOp.op = "analyzeCodeQuality"
    /\ lastOp.provider = NoProvider
    /\ lastOp.input # <<>>
    /\ lastOp.result = Throw("AI provider not configured")

\* C4: create with an empty apiKey fails with "API key is required ..."
\* whatever the provider value, supported or not, and builds no adapter.
C4_EmptyKeyCheckedFirst ==
    (factoryCall.op = "create" /\ factoryCall.config.apiKey = Str(<<>>)) =>
        /\ Threw(factoryCall.result)
        /\ factoryCall.result.message =
              "API key is required for " \o Text(factoryCall.config.provider.str)
              \o " provider"
        /\ factoryCall.result.built = <<>>

\* create was called with an empty key and an unsupported provider.
C4_Witness ==
    /\ factoryCall.op = "create"
    /\ factoryCall.config.apiKey = Str(<<>>)
    /\ factoryCall.config.provider = Str(s_unknown)
    /\ factoryCall.result.message = "API key is required for unknown provider"

\* The provider values of the model that spell a supported provider in
\* some letter case.
Spellings(name) ==
    CASE name = "openai" -> {s_openai, s_OpenAI}
      [] name = "anthropic" -> {s_anthropic, s_ANTHROPIC}
      [] name = "gemini" -> {s_gemini, s_Gemini}
Supported == Spellings("openai") \cup Spellings("anthropic") \cup Spellings("gemini")

\* C5: create with a non-empty apiKey and a provider that is none of
\* openai, anthropic, gemini in any letter case fails with "Unknown AI
\* provider: <value as given>. Supported providers: openai, anthropic,
\* gemini" and builds no adapter.
C5_UnknownProviderMessage ==
    (/\ factoryCall.op = "create"
     /\ factoryCall.config.apiKey # Str(<<>>)
     /\ factoryCall.config.provider.str \notin Supported) =>
        /\ Threw(factoryCall.result)
        /\ factoryCall.result.message =
              "Unknown AI provider: " \o Text(factoryCall.config.provider.str)
              \o ". Supported providers: openai, anthropic, gemini"
        /\ factoryCall.result.built = <<>>

\* create was called with a key and the provider "Azure", and the message
\* names it as given.
C5_Witness ==
    /\ factoryCall.op = "create"
    /\ factoryCall.config.apiKey = Str(s_testkey)
    /\ factoryCall.config.provider = Str(s_Azure)
    /\ factoryCall.result.message =
          "Unknown AI provider: Azure. Supported providers: openai, anthropic, gemini"

\* The adapter create(config) is to return for a provider spelt in any case.
Dispatched(config, name, displayName) ==
    (factoryCall.config.provider.str \in Spellings(name)) =>
        /\ Returned(factoryCall.result)
        /\ getProviderName(factoryCall.result.value) = displayName
        /\ factoryCall.result.value.apiKey = config.apiKey
        /\ factoryCall.result.value.model = config.model
        /\ factoryCall.result.built = <<factoryCall.result.value>>

\* C6: create with a non-empty apiKey dispatches on the provider name in
\* any letter case: openai to the adapter named "OpenAI", anthropic to
\* "Anthropic", gemini to "Google Gemini", built from config.apiKey and
\* config.model.
C6_CaseInsensitiveDispatch ==
    (factoryCall.op = "create" /\ factoryCall.config.apiKey # Str(<<>>)) =>
        /\ Dispatched(factoryCall.config, "openai", "OpenAI")
        /\ Dispatched(factoryCall.config, "anthropic", "Anthropic")
        /\ Dispatched(factoryCall.config, "gemini", "Google Gemini")

\* create was called with the provider "ANTHROPIC" and a model, and
\* returned the Anthropic adapter holding both.
C6_Witness ==
    /\ factoryCall.op = "create"
    /\ factoryCall.config.provider = Str(s_ANTHROPIC)
    /\ factoryCall.config.model = Str(s_gpt4)
    /\ factoryCall.result =
          Made(NewProvider("AnthropicProvider", Str(s_otherkey), Str(s_gpt4)))

\* C7: validateProvider never raises: it returns false when create fails
\* (empty apiKey or unsupported provider) or validateCredentials fails, and
\* otherwise the boolean validateCredentials returns.
C7_ValidateProviderNeverRaises ==
    (factoryCall.op = "validateProvider") =>
        /\ Returned(factoryCall.result)
        /\ factoryCall.result.value =
              IF \/ factoryCall.config.apiKey = Str(<<>>)
                 \/ factoryCall.config.provider.str \notin Supported
                 \/ factoryCall.probe = "throw"
              THEN Bool(FALSE)
              ELSE Bool(factoryCall.probe = "true")

\* validateProvider was called with a valid configuration and
\* validateCredentials raised.
C7_Witness ==
    /\ factoryCall.op = "validateProvider"
    /\ factoryCall.config.provider = Str(s_gemini)
    /\ factoryCall.probe = "throw"
    /\ factoryCall.result = Return(Bool(FALSE))

\* What createFromEnv is to do with the key variable var of the provider
\* name (in lower case) when the environment resolves to that provider.
UsesKey(name, var, class) ==
    /\ env[var] = Undefined =>
          factoryCall.result =
             Failed("API key not found for " \o name \o " provider")
    /\ Returned(factoryCall.result) =>
          /\ factoryCall.result.value.class = class
          /\ factoryCall.result.value.apiKey = env[var]

\* C8: createFromEnv fails with "API key not found for <provider> provider"
\* whenever the key variable of the resolved provider is unset, whatever
\* the other providers' key variables hold, and an adapter it returns holds
\* the key of the matching variable.
C8_MatchingKeyOnly ==
    (factoryCall.op = "createFromEnv") =>
        /\ env["AI_PROVIDER"] \in {Undefined, Str(<<>>), Str(s_OpenAI)} =>
              UsesKey("openai", "OPENAI_API_KEY", "OpenAIProvider")
        /\ env["AI_PROVIDER"] = Str(s_anthropic) =>
              UsesKey("anthropic", "ANTHROPIC_API_KEY", "AnthropicProvider")
        /\ env["AI_PROVIDER"] = Str(s_gemini) =>
              UsesKey("gemini", "GEMINI_API_KEY", "GeminiProvider")

\* createFromEnv failed for anthropic while the keys of the two other
\* providers were set.
C8_Witness ==
    /\ factoryCall.op = "createFromEnv"
    /\ env["AI_PROVIDER"] = Str(s_anthropic)
    /\ env["ANTHROPIC_API_KEY"] = Undefined
    /\ env["OPENAI_API_KEY"] = Str(s_testkey)
    /\ env["GEMINI_API_KEY"] # Undefined
    /\ factoryCall.result = Failed("API key not found for anthropic provider")

\* C9: with AI_PROVIDER unset, createFromEnv does what it does with
\* AI_PROVIDER=openai: with OPENAI_API_KEY set it returns the OpenAI
\* adapter, with it unset it fails with "API key not found for openai
\* provider".
C9_DefaultsToOpenAI ==
    (factoryCall.op = "createFromEnv" /\ env["AI_PROVIDER"] = Undefined) =>
        /\ factoryCall.result =
              createFromEnv([env EXCEPT !["AI_PROVIDER"] = Str(s_openai)])
        /\ Truthy(env["OPENAI_API_KEY"]) =>
              /\ Returned(factoryCall.result)
              /\ getProviderName(factoryCall.result.value) = "OpenAI"
        /\ env["OPENAI_API_KEY"] = Undefined =>
              factoryCall.result = Failed("API key not found for openai provider")

\* createFromEnv returned the OpenAI adapter with AI_PROVIDER unset, while
\* another provider's key was set too.
C9_Witness ==
    /\ factoryCall.op = "createFromEnv"
    /\ env["AI_PROVIDER"] = Undefined
    /\ env["ANTHROPIC_API_KEY"] # Undefined
    /\ Returned(factoryCall.result)
    /\ factoryCall.result.value.class = "OpenAIProvider"
    /\ factoryCall.result.value.apiKey = env["OPENAI_API_KEY"]

\* C10: the security scan never raises; it returns the empty list when no
\* adapter is configured, when the call fails, when the text is no JSON
\* and when the parsed value is no array, and a non-empty list only when
\* the text parses to a non-empty array.
C10_SecurityScanNeverRaises ==
    (lastOp.op = "analyzeSecurityConcerns") =>
        /\ Returned(lastOp.result)
        /\ (\/ ~isAIAvailable(lastOp.provider)
            \/ AnswerUnusable(lastOp.answer)
            \/ lastOp.answer.value.result \in NonArrayResults) =>
              lastOp.result.value = Arr(<<>>)
        /\ lastOp.result.value # Arr(<<>>) =>
              /\ lastOp.answer.value.result = Str(json_list)
              /\ lastOp.result.value =
                    Arr(<<Str(<<"U","n","s","a","n","i","t","i","z","e","d"," ",
                                "i","n","p","u","t">>),
                          Str(<<"H","a","r","d","c","o","d","e","d"," ",
                                "s","e","c","r","e","t">>)>>)

\* The scan of four snippets got a JSON object from the vendor and returned
\* the empty list.
C10_Witness ==
    /\ lastOp.op = "analyzeSecurityConcerns"
    /\ Len(lastOp.input) = 4
    /\ isAIAvailable(lastOp.provider)
    /\ lastOp.answer.value.result = Str(json_full)
    /\ lastOp.result = Return(Arr(<<>>))

\* The items of the heuristic roadmap in the order the spec gives them.
RoadmapOrder == <<Str(r_tests), Str(r_cicd), Str(r_deps), Str(r_docs), Str(r_coverage)>>

\* The position of item in RoadmapOrder, 0 when it is none of them.
RoadmapRank(item) ==
    IF \E k \in 1..Len(RoadmapOrder) : RoadmapOrder[k] = item
    THEN CHOOSE k \in 1..Len(RoadmapOrder) : RoadmapOrder[k] = item
    ELSE 0

Holds(list, item) == \E k \in 1..Len(list) : list[k] = item

\* chars has word at position i.
HasAt(chars, word, i) ==
    i + Len(word) - 1 <= Len(chars) /\ SubSeq(chars, i, i + Len(word) - 1) = word

\* /immediate.*test/i.test(item)
MatchesImmediateTest(item) ==
    LET low == toLowerCase(item.str)
    IN  \E i \in 1..Len(low) :
            /\ HasAt(low, <<"i","m","m","e","d","i","a","t","e">>, i)
            /\ \E j \in (i + 9)..Len(low) : HasAt(low, <<"t","e","s","t">>, j)

\* The heuristic roadmap the spec describes for a context read at time now.
IsHeuristicRoadmap(list, context, now) ==
    /\ Len(list) \in 2..5
    /\ \A k \in 1..Len(list) : RoadmapRank(list[k]) > 0
    /\ \A k \in 1..(Len(list) - 1) : RoadmapRank(list[k]) < RoadmapRank(list[k + 1])
    /\ Holds(list, Str(r_tests)) <=> ~context.hasTests
    /\ Holds(list, Str(r_cicd)) <=> ~context.hasCICD
    /\ Holds(list, Str(r_deps)) <=> (now - context.lastUpdate >= 181 * SecondsPerDay)
    /\ Holds(list, Str(r_docs))
    /\ Holds(list, Str(r_coverage))
    /\ context.hasTests => \A k \in 1..Len(list) : ~MatchesImmediateTest(list[k])

\* C11: with no adapter, generateModernizationRoadmap never raises and
\* returns the heuristic list in order: the testing item iff hasTests is
\* false, the CI/CD item iff hasCICD is false, the dependency item iff more
\* than 180 whole days have passed since lastUpdate, then the documentation
\* and coverage items; 2 to 5 items, none matching immediate...test when
\* hasTests is true.
C11_UnconfiguredRoadmapIsHeuristic ==
    (lastOp.op = "generateModernizationRoadmap" /\ ~isAIAvailable(lastOp.provider)) =>
        /\ Returned(lastOp.result)
        /\ IsArr(lastOp.result.value)
        /\ IsHeuristicRoadmap(lastOp.result.value.arr, lastOp.input.context,
                              lastOp.input.now)
        /\ lastOp.requests = <<>>

\* The roadmap of a project with tests, without CI/CD, last updated one
\* second short of 181 days ago: exactly 180 whole days, so no dependency
\* item.
C11_Witness ==
    /\ lastOp.op = "generateModernizationRoadmap"
    /\ lastOp.provider = NoProvider
    /\ lastOp.input.context.hasTests
    /\ ~lastOp.input.context.hasCICD
    /\ lastOp.input.now - lastOp.input.context.lastUpdate = 181 * SecondsPerDay - 1
    /\ lastOp.result = Return(Arr(<<Str(r_cicd), Str(r_docs), Str(r_coverage)>>))

\* The conditions the spec lists for the heuristic README score, decided
\* for one README text.
ListedConditions(content) ==
    LET s == Materialized(content)
    IN  [long |-> Length(content) >= 500,
         medium |-> Length(content) < 500 /\ Length(content) >= 200,
         heading |-> HasTitle(s),
         install |-> HasInstallSection(s),
         usage |-> HasUsageSection(s),
         fence |-> HasCodeFence(s),
         link |-> HasLink(s),
         badge |-> HasBadge(s)]

NoCondition ==
    [long |-> FALSE, medium |-> FALSE, heading |-> FALSE, install |-> FALSE,
     usage |-> FALSE, fence |-> FALSE, link |-> FALSE, badge |-> FALSE]

\* The score analyzeReadme falls back to for content when the adapter
\* answers as in the operation awaited last.
FallbackScore(content) ==
    analyzeReadme(lastOp.provider, content, lastOp.answer).result.value.qualityScore

\* C12, as stated: the score analyzeReadme falls back to is made of fixed
\* points for the listed conditions (length at least 500, else at least 200;
\* top-level heading; installation section; usage section; fenced block;
\* hyperlink; badge), capped at 100.  So READMEs that agree on every listed
\* condition score the same, one that meets none scores 0, and one that
\* meets some scores more than 0 and at most 100.
C12_FallbackScoresListedConditions ==
    (/\ lastOp.op = "analyzeReadme"
     /\ isAIAvailable(lastOp.provider)
     /\ AnswerUnusable(lastOp.answer)) =>
        /\ Returned(lastOp.result)
        /\ \A c \in ReadmeInputs :
              ListedConditions(c) = ListedConditions(lastOp.input) =>
                  FallbackScore(c) = lastOp.result.value.qualityScore
        /\ ListedConditions(lastOp.input) = NoCondition =>
              lastOp.result.value.qualityScore = Num(0)
        /\ ListedConditions(lastOp.input) # NoCondition =>
              /\ lastOp.result.value.qualityScore.num > 0
              /\ lastOp.result.value.qualityScore.num <= 100

\* C13, as stated: with an adapter whose analyze call fails, analyzeReadme
\* of a top-level heading followed by a short paragraph returns a
\* qualityScore greater than 0 and at most 100.
C13_HeadingReadmeScoresPositive ==
    (/\ lastOp.op = "analyzeReadme"
     /\ isAIAvailable(lastOp.provider)
     /\ Threw(lastOp.answer)
     /\ lastOp.input = Content(readme_test, 0)) =>
        /\ Returned(lastOp.result)
        /\ lastOp.result.value.qualityScore.num > 0
        /\ lastOp.result.value.qualityScore.num <= 100

\* C14: with an adapter, the code-quality operation never raises; when the
\* adapter's analyze call fails or its result text is not parsable as JSON,
\* it returns no insights and the architecture score 70.
C14_CodeQualityFallsBack ==
    (lastOp.op = "analyzeCodeQuality" /\ isAIAvailable(lastOp.provider)) =>
        /\ Returned(lastOp.result)
        /\ AnswerUnusable(lastOp.answer) =>
              lastOp.result.value =
                 [insights |-> Arr(<<>>), architectureScore |-> Num(70)]

\* The code-quality operation on six files got prose instead of JSON
\* from the Anthropic adapter and returned the default.
C14_Witness ==
    /\ lastOp.op = "analyzeCodeQuality"
    /\ lastOp.provider.class = "AnthropicProvider"
    /\ Len(lastOp.input) > 5
    /\ lastOp.answer.outcome = "return"
    /\ lastOp.answer.value.result = Str(text_prose)
    /\ lastOp.fallback
    /\ lastOp.result = Return([insights |-> Arr(<<>>), architectureScore |-> Num(70)])

\* C15: an adapter's validateCredentials never raises: it returns true
\* when its request answers with a success status, false when it answers
\* with another status, and false when the transport throws.
C15_ValidateCredentialsNeverRaises ==
    (factoryCall.op = "validateCredentials") =>
        /\ Returned(factoryCall.result)
        /\ factoryCall.http.kind = "success" => factoryCall.result.value = Bool(TRUE)
        /\ factoryCall.http.kind = "failure" => factoryCall.result.value = Bool(FALSE)
        /\ factoryCall.http.kind = "network" => factoryCall.result.value = Bool(FALSE)

\* validateCredentials of a Gemini adapter returned false on a network
\* exception.
C15_Witness ==
    /\ factoryCall.op = "validateCredentials"
    /\ factoryCall.provider.class = "GeminiProvider"
    /\ factoryCall.http = NetworkError("fetch failed")
    /\ factoryCall.result = Return(Bool(FALSE))

\* The display name the spec gives each adapter class.
DisplayName(class) ==
    CASE class = "OpenAIProvider" -> "OpenAI"
      [] class = "AnthropicProvider" -> "Anthropic"
      [] class = "GeminiProvider" -> "Google Gemini"

\* C16: on a response with a non-success status an adapter's analyze
\* returns nothing and fails with the message "<ProviderName> analysis
\* failed: <detail>", the detail being the vendor's error message or, when
\* the payload has none, the status text.
C16_VendorErrorMessage ==
    (factoryCall.op = "analyze" /\ factoryCall.http.kind = "failure") =>
        /\ Threw(factoryCall.result)
        /\ factoryCall.result.message =
              DisplayName(factoryCall.provider.class) \o " analysis failed: "
              \o (IF factoryCall.http.vendorMessage = ""
                  THEN factoryCall.http.statusText
                  ELSE factoryCall.http.vendorMessage)

\* analyze of an OpenAI adapter failed on the vendor's "Invalid API key".
C16_Witness ==
    /\ factoryCall.op = "analyze"
    /\ factoryCall.provider.class = "OpenAIProvider"
    /\ factoryCall.http = HttpFailure("Unauthorized", "Invalid API key")
    /\ factoryCall.result = Throw("OpenAI analysis failed: Invalid API key")

\* C17: getSupportedProviders() returns exactly the list openai, anthropic,
\* gemini, in that order, on every call, whatever the environment holds and
\* whatever was called before.
C17_SupportedProvidersFixed ==
    (factoryCall.op = "getSupportedProviders") =>
        factoryCall.result =
            Return(Arr(<<Str(<<"o","p","e","n","a","i">>),
                         Str(<<"a","n","t","h","r","o","p","i","c">>),
                         Str(<<"g","e","m","i","n","i">>)>>))

\* getSupportedProviders was called with AI_PROVIDER naming an unsupported
\* provider and no OpenAI key set.
C17_Witness ==
    /\ factoryCall.op = "getSupportedProviders"
    /\ env["AI_PROVIDER"] = Str(s_unknown)
    /\ env["OPENAI_API_KEY"] = Undefined
    /\ env["GEMINI_API_KEY"] # Undefined
    /\ Returned(factoryCall.result)
    /\ Len(factoryCall.result.value.arr) = 3

\* C18, as stated: the heuristic README score is one function in both of
\* its uses: the README quality DocumentationAnalyzer produces through an
\* adapter whose call fails or answers unparsable text equals the quality
\* it produces for the same text with no adapter configured.
C18_SameHeuristicInBothUses ==
    (/\ lastOp.op = "documentationAnalyze"
     /\ isAIAvailable(lastOp.provider)
     /\ lastOp.answer # NoAnswer
     /\ AnswerUnusable(lastOp.answer)) =>
        lastOp.result = readmeQuality(NoProvider, lastOp.input, NoAnswer).result

\* C19, as stated: constructing the analyzer from a configuration whose
\* apiKey is empty raises the configuration error of the missing key
\* instead of producing an analyzer with no adapter.
C19_EmptyKeyRaisesAtConstruction ==
    (/\ lastOp.op = "constructor"
     /\ lastOp.input # Undefined
     /\ lastOp.input.apiKey = Str(<<>>)) =>
        /\ Threw(lastOp.result)
        /\ lastOp.result.message =
              "API key is required for " \o Text(lastOp.input.provider.str) \o " provider"

\* C19, amended: create raises the error of the missing key synchronously,
\* but the analyzer's constructor calls create only for a non-empty apiKey:
\* from a configuration with an empty apiKey it raises nothing and produces
\* an analyzer with no adapter, and with a non-empty apiKey whatever create
\* raises (an unknown provider) escapes the constructor.
C19_ConstructorSkipsEmptyKey ==
    (lastOp.op = "constructor" /\ lastOp.input # Undefined) =>
        LET made == create(lastOp.input)
        IN  /\ lastOp.input.apiKey = Str(<<>>) =>
                  /\ made = Failed("API key is required for "
                                   \o Text(lastOp.input.provider.str) \o " provider")
                  /\ lastOp.result = Return(NoProvider)
                  /\ aiProvider = NoProvider
            /\ lastOp.input.apiKey # Str(<<>>) =>
                  /\ Threw(made) =>
                        /\ lastOp.result = Throw(made.message)
                        /\ aiProvider = Unconstructed
                  /\ Returned(made) =>
                        /\ lastOp.result = Return(made.value)
                        /\ aiProvider = made.value

\* The constructor was given the provider openai with an empty apiKey and
\* returned an analyzer that holds no adapter.
C19_Witness ==
    /\ lastOp.op = "constructor"
    /\ lastOp.input # Undefined
    /\ lastOp.input.provider = Str(s_openai)
    /\ lastOp.input.apiKey = Str(<<>>)
    /\ Returned(lastOp.result)
    /\ ~isAIAvailable(aiProvider)

\* The result texts of the model that parse to a JSON array, with the
\* array each parses to.
ArrayResults == {Str(json_list), Str(json_nolist)}
ArrayOf(text) ==
    IF text = Str(json_list)
    THEN Arr(<<Str(<<"U","n","s","a","n","i","t","i","z","e","d"," ","i","n","p","u","t">>),
               Str(<<"H","a","r","d","c","o","d","e","d"," ","s","e","c","r","e","t">>)>>)
    ELSE Arr(<<>>)

\* C20: with an adapter, generateModernizationRoadmap never raises; it
\* returns the parsed value as it is only when the result text parses to a
\* JSON array, and the heuristic roadmap of the same context when the call
\* fails, the text is no JSON, or the parsed value is no array.
C20_RoadmapFallsBack ==
    (lastOp.op = "generateModernizationRoadmap" /\ isAIAvailable(lastOp.provider)) =>
        /\ Returned(lastOp.result)
        /\ IsArr(lastOp.result.value)
        /\ IF Returned(lastOp.answer) /\ lastOp.answer.value.result \in ArrayResults
           THEN /\ lastOp.result.value = ArrayOf(lastOp.answer.value.result)
                /\ ~lastOp.fallback
           ELSE /\ \/ AnswerUnusable(lastOp.answer)
                   \/ lastOp.answer.value.result \in NonArrayResults
                /\ IsHeuristicRoadmap(lastOp.result.value.arr, lastOp.input.context,
                                      lastOp.input.now)
                /\ lastOp.fallback

\* The vendor answered the roadmap request with a JSON object, and the
\* operation returned the heuristic roadmap of a project without tests or
\* CI/CD last updated 181 days ago: all five items.
C20_Witness ==
    /\ lastOp.op = "generateModernizationRoadmap"
    /\ isAIAvailable(lastOp.provider)
    /\ Returned(lastOp.answer)
    /\ lastOp.answer.value.result = Str(json_full)
    /\ lastOp.input.now - lastOp.input.context.lastUpdate = 181 * SecondsPerDay
    /\ lastOp.result = Return(Arr(RoadmapOrder))

\* The result texts of the model that parse to a JSON object: without a
\* score field, and with the score 0 (and empty lists).
ScoreAbsent == Str(json_empty)
ScoreZero == Str(json_zero)

\* C21: when the vendor call succeeds and its text parses to a JSON
\* object, an absent score field and a score field of 0 give the same
\* outcome: analyzeReadme returns qualityScore 50 and analyzeCodeQuality
\* architectureScore 70, neither using the heuristic, and an absent
\* suggestions or insights field gives the empty list.
C21_ZeroScoreIsDefaulted ==
    (/\ lastOp.op \in {"analyzeReadme", "analyzeCodeQuality"}
     /\ isAIAvailable(lastOp.provider)
     /\ Returned(lastOp.answer)
     /\ lastOp.answer.value.result \in {ScoreAbsent, ScoreZero, Str(json_high)}) =>
        /\ ~lastOp.fallback
        /\ Returned(lastOp.result)
        /\ lastOp.op = "analyzeReadme" =>
              /\ lastOp.result.value.suggestions = Arr(<<>>)
              /\ lastOp.answer.value.result \in {ScoreAbsent, ScoreZero} =>
                    lastOp.result.value.qualityScore = Num(50)
        /\ lastOp.op = "analyzeCodeQuality" =>
              /\ lastOp.result.value.insights = Arr(<<>>)
              /\ lastOp.answer.value.result \in {ScoreAbsent, ScoreZero} =>
                    lastOp.result.value.architectureScore = Num(70)

\* The vendor scored a README with sections 0, and analyzeReadme returned
\* 50 where its heuristic would have given 40.
C21_Witness ==
    /\ lastOp.op = "analyzeReadme"
    /\ lastOp.input = Content(readme_sections, 0)
    /\ Returned(lastOp.answer)
    /\ lastOp.answer.value.result = ScoreZero
    /\ lastOp.result = Return([qualityScore |-> Num(50), suggestions |-> Arr(<<>>)])
    /\ calculateBasicReadmeScore(lastOp.input) = 40

\* C22: no operation retries. Each invocation of analyzeReadme,
\* analyzeCodeQuality, analyzeSecurityConcerns or generateModernizationRoadmap
\* calls the adapter's analyze exactly once when an adapter is configured and
\* not at all when none is, and after a failed call (a rejected request or an
\* unparsable answer) it takes the fallback with that single call made.
AnalyzerOperations ==
    {"analyzeReadme", "analyzeCodeQuality", "analyzeSecurityConcerns",
     "generateModernizationRoadmap"}

C22_NoRetry ==
    lastOp.op \in AnalyzerOperations =>
        /\ Len(lastOp.requests) = (IF isAIAvailable(lastOp.provider) THEN 1 ELSE 0)
        /\ (isAIAvailable(lastOp.provider) /\ AnswerUnusable(lastOp.answer)) =>
               /\ lastOp.fallback
               /\ Len(lastOp.requests) = 1

\* A configured analyzer whose security scan was rejected by the vendor and
\* fell back after its one call.
C22_Witness ==
    /\ lastOp.op = "analyzeSecurityConcerns"
    /\ isAIAvailable(lastOp.provider)
    /\ Threw(lastOp.answer)
    /\ lastOp.fallback
    /\ Len(lastOp.requests) = 1

\* C23: the adapter an analyzer holds is fixed at construction. No step of
\* any operation, overlapping ones and failed vendor calls included, changes
\* it, so isAIAvailable() keeps the value it had right after construction,
\* and an operation that settles yields what its own input and its own vendor
\* answer give on that adapter, whatever ran before it or is still in flight.
C23_Step ==
    /\ aiProvider # Unconstructed =>
           /\ aiProvider' = aiProvider
           /\ isAIAvailable(aiProvider') = isAIAvailable(aiProvider)
    /\ (lastOp'.op \in AnalyzerOperations /\ aiProvider # Unconstructed) =>
           /\ lastOp'.provider = aiProvider
           /\ lastOp'.result =
                  Run(lastOp'.op, aiProvider, lastOp'.input, lastOp'.answer).result

C23_AdapterFixedAtConstruction == [][C23_Step]_vars

\* A vendor call has failed and its operation fell back while another
\* operation of the same analyzer is still in flight; the adapter is held.
C23_Witness ==
    /\ lastOp.op \in AnalyzerOperations
    /\ Threw(lastOp.answer)
    /\ lastOp.fallback
    /\ pending # <<>>
    /\ isAIAvailable(aiProvider)

\* C24: every qualityScore analyzeReadme returns is a number within 0..100,
\* whether it comes from the heuristic fallback or from the JSON the vendor
\* answered.
C24_QualityScoreWithinBounds ==
    (lastOp.op = "analyzeReadme" /\ Returned(lastOp.result)) =>
        lastOp.result.value.qualityScore \in {Num(n) : n \in 0..100}

\* What the claim lists as sent by each analyzer operation.
OperationTuning(op) ==
    CASE op = "analyzeReadme" -> [maxTokens |-> Num(1000), temperature |-> Dec(5, 1)]
      [] op = "analyzeCodeQuality" -> [maxTokens |-> Num(800), temperature |-> Dec(3, 1)]
      [] op = "analyzeSecurityConcerns" -> [maxTokens |-> Num(500), temperature |-> Dec(2, 1)]
      [] op = "generateModernizationRoadmap" ->
            [maxTokens |-> Num(600), temperature |-> Dec(6, 1)]

Untuned(config) ==
    [config EXCEPT !.maxTokens = Undefined, !.temperature = Undefined]

UntunedEnv(e) ==
    [e EXCEPT !["AI_MAX_TOKENS"] = Undefined, !["AI_TEMPERATURE"] = Undefined]

\* C25: maxTokens and temperature of a configuration never reach the adapter.
\* create gives the same outcome for a configuration as for the one that
\* differs from it only by having no maxTokens and temperature, createFromEnv
\* gives the same outcome as for the environment without AI_MAX_TOKENS and
\* AI_TEMPERATURE, an adapter made holds its class, apiKey and model only, the
\* analyzer's constructor behaves alike, and every request an analyzer
\* operation sends carries the fixed values of that operation: README
\* 1000/0.5, code quality 800/0.3, security 500/0.2, roadmap 600/0.6.
C25_TuningNeverReachesAdapter ==
    /\ factoryCall.op = "create" =>
           /\ factoryCall.result = create(Untuned(factoryCall.config))
           /\ ~Threw(factoryCall.result) =>
                  DOMAIN factoryCall.result.value = {"class", "apiKey", "model"}
    /\ factoryCall.op = "createFromEnv" =>
           /\ factoryCall.result = createFromEnv(UntunedEnv(env))
           /\ ~Threw(factoryCall.result) =>
                  DOMAIN factoryCall.result.value = {"class", "apiKey", "model"}
    /\ (lastOp.op = "constructor" /\ lastOp.input # Undefined) =>
           lastOp.result = AIAnalyzerNew(Untuned(lastOp.input))
    /\ lastOp.op \in AnalyzerOperations =>
           \A i \in DOMAIN lastOp.requests :
               /\ lastOp.requests[i].maxTokens = OperationTuning(lastOp.op).maxTokens
               /\ lastOp.requests[i].temperature = OperationTuning(lastOp.op).temperature

\* createFromEnv has made an adapter from an environment that sets
\* AI_MAX_TOKENS and AI_TEMPERATURE, and the roadmap operation of an analyzer
\* has sent its request.
C25_Witness ==
    /\ factoryCall.op = "createFromEnv"
    /\ Truthy(env["AI_MAX_TOKENS"])
    /\ Truthy(env["AI_TEMPERATURE"])
    /\ ~Threw(factoryCall.result)
    /\ lastOp.op = "generateModernizationRoadmap"
    /\ Len(lastOp.requests) = 1

====
